---- MODULE Spec2Model ----
(***************************************************************************)
(* Verification model of the NutriFit deterministic planning core:         *)
(* metrics calculator, meal plan generator, workout plan generator,        *)
(* shopping list generator, progress tracking engine and the user store.   *)
(*                                                                         *)
(* Numbers.  JavaScript numbers are modelled by exact integers:            *)
(*   - body weights are kept in tenths of a kilogram (w10 = 10 * kg);      *)
(*   - percentages of the weekly weight change in tenths of a percent;     *)
(*   - portions in quarters of a portion (q = 4 * portions);               *)
(*   - consolidated gram totals in quarter grams (g4 = 4 * grams);         *)
(*   - Math.round(n / d) is RoundDiv(n, d) = floor(n/d + 1/2).             *)
(***************************************************************************)
EXTENDS Integers, Sequences, FiniteSets, TLC

VARIABLES
    currentUser,   \* userStore.currentUser
    currentMetrics,\* userStore.currentMetrics
    isLoading,     \* userStore.isLoading
    storeError,    \* userStore.error (TRUE when an error message is set)
    pending,       \* updateUser calls awaiting dataStorage.saveUser
    analysis,      \* the caller's last WeeklyProgressAnalysis
    adjustments,   \* the caller's last applyAutomaticAdjustments result
    cycle,         \* position of the caller in the planning cycle
    ret,           \* the value returned by the most recent call of the core
    heap           \* the caller's input objects and the module-level catalogs

vars == <<currentUser, currentMetrics, isLoading, storeError, pending, analysis, adjustments, cycle, ret, heap>>

----------------------------------------------------------------------------
(* Arithmetic helpers *)

Max(a, b) == IF a >= b THEN a ELSE b

Min(a, b) == IF a <= b THEN a ELSE b

Abs(a) == IF a >= 0 THEN a ELSE 0 - a

\* Math.round(n / d) for d > 0: the nearest integer, halves rounded up
RoundDiv(n, d) == (2 * n + d) \div (2 * d)

RECURSIVE SumSeq(_)
SumSeq(s) == IF s = <<>> THEN 0 ELSE Head(s) + SumSeq(Tail(s))

SeqToSet(s) == {s[i] : i \in 1..Len(s)}

----------------------------------------------------------------------------
(* Metrics calculator: calculators.ts *)

MaleFloor == 1500

FemaleFloor == 1200

\* const min_safe_kcal = sex === 'male' ? 1500 : 1200
MinSafeKcal(sex) == IF sex = "male" THEN MaleFloor ELSE FemaleFloor

\* 10*kg + 6.25*cm - 5*age + (5 | -161), rounded; the sum is kept in hundredths
\* the Mifflin formula with the male offset used for both sexes
\* calculateBMI in tenths; a division by zero gives Infinity, -Infinity or NaN
calculateBMI(w10, height_cm) ==
    IF height_cm # 0 THEN [kind |-> "finite", tenths |-> RoundDiv(w10 * 10000, height_cm * height_cm)]
    ELSE IF w10 > 0 THEN [kind |-> "Infinity", tenths |-> 0]
    ELSE IF w10 < 0 THEN [kind |-> "-Infinity", tenths |-> 0]
    ELSE [kind |-> "NaN", tenths |-> 0]

calculateBMR_Mifflin_MaleOffset(sex, w10, height_cm, age) ==
    RoundDiv(100 * w10 + 625 * height_cm - 500 * age + 500, 100)

calculateBMR_Mifflin(sex, w10, height_cm, age) ==
    LET base100 == 100 * w10 + 625 * height_cm - 500 * age
        adjustment == IF sex = "male" THEN 5 ELSE 0 - 161
    IN  RoundDiv(base100 + 100 * adjustment, 100)

\* activity factors are kept in thousandths (1.55 = 1550)
calculateTDEE(bmr, af1000) == RoundDiv(bmr * af1000, 1000)

\* the tiers with the 5 kg boundary on the side of the larger percentage
DeficitPermille_InclusiveTiers(diff10) ==
    IF diff10 <= 0 - 50 THEN 225
    ELSE IF diff10 < 0 THEN 150
    ELSE IF diff10 >= 50 THEN 0 - 125
    ELSE IF diff10 > 0 THEN 0 - 75
    ELSE 0

\* the deficit percentage in thousandths; negative for a surplus
DeficitPermille(diff10) ==
    IF diff10 < 0 - 50 THEN 225
    ELSE IF diff10 < 0 THEN 150
    ELSE IF diff10 > 50 THEN 0 - 125
    ELSE IF diff10 > 0 THEN 0 - 75
    ELSE 0

\* calculateKcalRange without the Math.max against the safety floor
calculateKcalRange_NoFloor(tdee, goal10, cur10, sex) ==
    LET target == RoundDiv(tdee * (1000 - DeficitPermille(goal10 - cur10)), 1000)
    IN  [min    |-> RoundDiv(target * 95, 100),
         max    |-> RoundDiv(target * 105, 100),
         target |-> target]

calculateKcalRange(tdee, goal10, cur10, sex) ==
    LET weight_diff == goal10 - cur10
        min_safe_kcal == MinSafeKcal(sex)
        deficit == DeficitPermille(weight_diff)
        target == RoundDiv(tdee * (1000 - deficit), 1000)
        safe_target == Max(target, min_safe_kcal)
    IN  [min    |-> Max(RoundDiv(safe_target * 95, 100), min_safe_kcal),
         max    |-> RoundDiv(safe_target * 105, 100),
         target |-> safe_target]

\* MACRO_RATIOS: protein 1.6 / 1.9 / 2.2 g per kg, in hundredths of g per tenth of kg
ProteinRatio100(pref) ==
    IF pref = "low" THEN 16 ELSE IF pref = "high" THEN 22 ELSE 19

\* the carbohydrate calories computed with fat counted at 4 kcal per gram
calculateMacros_FatAtFour(kcal_target, goal10, pref) ==
    LET protein_g == RoundDiv(goal10 * ProteinRatio100(pref), 100)
        fat_g == RoundDiv(goal10 * 6, 100)
        remaining_kcal == kcal_target - protein_g * 4 - fat_g * 4
    IN  [protein_g |-> protein_g,
         fat_g     |-> fat_g,
         carbs_g   |-> Max(0, RoundDiv(remaining_kcal, 4))]

calculateMacros(kcal_target, goal10, pref) ==
    LET protein_g == RoundDiv(goal10 * ProteinRatio100(pref), 100)
        fat_g == RoundDiv(goal10 * 6, 100)
        remaining_kcal == kcal_target - protein_g * 4 - fat_g * 9
    IN  [protein_g |-> protein_g,
         fat_g     |-> fat_g,
         carbs_g   |-> Max(0, RoundDiv(remaining_kcal, 4))]

calculateAllMetrics(user, af1000) ==
    LET bmr == calculateBMR_Mifflin(user.sex, user.weight10, user.height_cm, user.age)
        tdee == calculateTDEE(bmr, af1000)
        kcal_range == calculateKcalRange(tdee, user.goal10, user.weight10, user.sex)
    IN  [bmi         |-> calculateBMI(user.weight10, user.height_cm),
         bmr_mifflin |-> bmr,
         tdee        |-> tdee,
         kcal_range  |-> kcal_range,
         macros      |-> calculateMacros(kcal_range.target, user.goal10, "medium")]

\* DEFAULT activity factor of every caller in the repository (1.55)
DefaultActivity == 1550

----------------------------------------------------------------------------
(* Meal plan generator: calculators.ts (second half) *)

\* the templates with the dinner share of the normal day at 0.37
DAY_TEMPLATES_LargeDinner ==
    [normal_day |->
        <<[slot |-> "desayuno", pct |-> 18], [slot |-> "almuerzo", pct |-> 35],
          [slot |-> "colacion", pct |-> 15], [slot |-> "cena", pct |-> 37],
          [slot |-> "post_entreno", pct |-> 5]>>,
     fasting_morning |->
        <<[slot |-> "almuerzo", pct |-> 40], [slot |-> "colacion", pct |-> 20],
          [slot |-> "cena", pct |-> 35], [slot |-> "post_entreno", pct |-> 5]>>,
     simple_3_meals |->
        <<[slot |-> "desayuno", pct |-> 25], [slot |-> "almuerzo", pct |-> 40],
          [slot |-> "cena", pct |-> 35]>>]

\* DAY_TEMPLATES, kcal_distribution in hundredths, in property order
DAY_TEMPLATES ==
    [normal_day |->
        <<[slot |-> "desayuno", pct |-> 18], [slot |-> "almuerzo", pct |-> 35],
          [slot |-> "colacion", pct |-> 15], [slot |-> "cena", pct |-> 27],
          [slot |-> "post_entreno", pct |-> 5]>>,
     fasting_morning |->
        <<[slot |-> "almuerzo", pct |-> 40], [slot |-> "colacion", pct |-> 20],
          [slot |-> "cena", pct |-> 35], [slot |-> "post_entreno", pct |-> 5]>>,
     simple_3_meals |->
        <<[slot |-> "desayuno", pct |-> 25], [slot |-> "almuerzo", pct |-> 40],
          [slot |-> "cena", pct |-> 35]>>]

\* String.prototype.toLowerCase on the preference terms of the model
ToLowerCase(term) == IF term = "Fish" THEN "fish" ELSE term

\* food_id.includes(term): the substring relation on the strings of the model
StrIncludes(food_id, term) ==
    \/ food_id = term
    \/ <<food_id, term>> \in {<<"white_fish", "fish">>, <<"chicken_breast", "chicken">>}

RecipeFoods(recipe) == {recipe.ingredients[i].food_id : i \in 1..Len(recipe.ingredients)}

MaxPrepTimeLow == 30

generatePersonalizationRules(user) ==
    [no_oil               |-> user.no_oil,
     no_sugar             |-> user.no_sugar,
     budget_priority      |-> user.budget_level = "low",
     cholesterol_friendly |-> user.ldl > 130,
     high_protein         |-> user.goal10 < user.weight10,
     batch_cooking        |-> "batch_cooking" \in user.likes,
     excluded_ingredients |-> user.dislikes,
     preferred_ingredients |-> user.likes,
     \* 0 stands for undefined: no time limit
     max_prep_time        |-> IF user.budget_level = "low" THEN MaxPrepTimeLow ELSE 0]

selectDayTemplate(user, rules) ==
    IF "ayuno_intermitente" \in user.likes THEN "fasting_morning"
    ELSE IF rules.budget_priority /\ ~rules.batch_cooking THEN "simple_3_meals"
    ELSE "normal_day"

\* the filter callback without the no_oil rule
PassesRules_IgnoresOil(recipe, rules, category) ==
    /\ recipe.category = category
    /\ rules.no_sugar => "sin_azucar" \in recipe.tags
    /\ ~ \E excluded \in rules.excluded_ingredients :
           \E f \in RecipeFoods(recipe) : StrIncludes(f, ToLowerCase(excluded))
    /\ ~ (rules.max_prep_time # 0
          /\ recipe.prep_time_min + recipe.cooking_time_min > rules.max_prep_time)

\* the predicate of the filter callback of filterRecipesByRules
PassesRules(recipe, rules, category) ==
    /\ recipe.category = category
    /\ rules.no_oil => "sin_aceite" \in recipe.tags
    /\ rules.no_sugar => "sin_azucar" \in recipe.tags
    /\ ~ \E excluded \in rules.excluded_ingredients :
           \E f \in RecipeFoods(recipe) : StrIncludes(f, ToLowerCase(excluded))
    /\ ~ (rules.max_prep_time # 0
          /\ recipe.prep_time_min + recipe.cooking_time_min > rules.max_prep_time)

filterRecipesByRules(recipes, rules, category) ==
    LET Keep(recipe) == PassesRules(recipe, rules, category)
    IN  SelectSeq(recipes, Keep)

CostPenaltyLimit == 1500

scoreRecipe(recipe, rules) ==
      (IF rules.budget_priority /\ "budget" \in recipe.tags THEN 3 ELSE 0)
    + (IF rules.cholesterol_friendly /\ "colesterol_friendly" \in recipe.tags THEN 2 ELSE 0)
    + (IF rules.high_protein /\ "alta_prote" \in recipe.tags THEN 2 ELSE 0)
    + (IF rules.batch_cooking /\ "batch_cooking" \in recipe.tags THEN 1 ELSE 0)
    + (IF "rapida" \in recipe.tags THEN 1 ELSE 0)
    + (IF \E preferred \in rules.preferred_ingredients :
             \E f \in RecipeFoods(recipe) : StrIncludes(f, ToLowerCase(preferred))
       THEN 1 ELSE 0)
    - (IF rules.budget_priority /\ recipe.cost_estimate > CostPenaltyLimit THEN 2 ELSE 0)

\* deviation <= tolerance with tolerance = 0.15
InCalorieRange(recipe, targetKcal) ==
    100 * Abs(recipe.kcal - targetKcal) <= 15 * targetKcal

\* a sorts strictly before b in the comparator of selectRecipeForCalories
SortsBefore(a, b, targetKcal, rules) ==
    LET sa == scoreRecipe(a, rules)
        sb == scoreRecipe(b, rules)
    IN  \/ sa > sb
        \/ sa = sb /\ Abs(a.kcal - targetKcal) < Abs(b.kcal - targetKcal)

\* the selection without the calorie-range filter: every candidate is scored
selectRecipeForCalories_ScoresAll(availableRecipes, targetKcal, rules) ==
    IF Len(availableRecipes) = 0 THEN 0
    ELSE
      CHOOSE i \in 1..Len(availableRecipes) :
        /\ \A j \in 1..Len(availableRecipes) :
              ~SortsBefore(availableRecipes[j], availableRecipes[i], targetKcal, rules)
        /\ \A j \in 1..(i - 1) :
              SortsBefore(availableRecipes[j], availableRecipes[i], targetKcal, rules)
              \/ SortsBefore(availableRecipes[i], availableRecipes[j], targetKcal, rules)

\* index in availableRecipes of the selected recipe, 0 for null; the sort is
\* stable, so among equal keys the earliest list element comes first
selectRecipeForCalories(availableRecipes, targetKcal, rules) ==
    IF Len(availableRecipes) = 0 THEN 0
    ELSE
      LET InRange(r) == InCalorieRange(r, targetKcal)
          inRangeRecipes == SelectSeq(availableRecipes, InRange)
          recipesToScore == IF Len(inRangeRecipes) > 0 THEN inRangeRecipes
                            ELSE availableRecipes
          best == CHOOSE i \in 1..Len(recipesToScore) :
                    /\ \A j \in 1..Len(recipesToScore) :
                          ~SortsBefore(recipesToScore[j], recipesToScore[i], targetKcal, rules)
                    /\ \A j \in 1..(i - 1) :
                          SortsBefore(recipesToScore[j], recipesToScore[i], targetKcal, rules)
                          \/ SortsBefore(recipesToScore[i], recipesToScore[j], targetKcal, rules)
      IN  CHOOSE k \in 1..Len(availableRecipes) :
            /\ availableRecipes[k] = recipesToScore[best]
            /\ \A m \in 1..(k - 1) : availableRecipes[m] # recipesToScore[best]

\* the portions rounded to quarters without the limits 0.5 and maxPortion
adjustPortionsForCalories_NoLimits(recipe, targetKcal) ==
    LET q == RoundDiv(4 * targetKcal, recipe.kcal)
    IN  [portions |-> q, adjustedKcal |-> RoundDiv(recipe.kcal * q, 4)]

\* portions in quarters: clamp to [0.5, maxPortion = 2.0], then
\* Math.round(portions * 4) / 4
adjustPortionsForCalories(recipe, targetKcal) ==
    LET baseKcal == recipe.kcal
        q == IF 2 * targetKcal < baseKcal THEN 2
             ELSE IF targetKcal > 2 * baseKcal THEN 8
             ELSE RoundDiv(4 * targetKcal, baseKcal)
    IN  [portions |-> q, adjustedKcal |-> RoundDiv(baseKcal * q, 4)]

\* post_entreno uses the colacion recipes
CategoryForFilter(mealCategory) ==
    IF mealCategory = "post_entreno" THEN "colacion" ELSE mealCategory

MealTargetKcal(targetKcal, pct) == RoundDiv(targetKcal * pct, 100)

\* one pass of the slot loop of generateDailyMealPlan: <<>> when the slot is
\* skipped, else the meal pushed together with the macros it adds
SlotMeal(recipes, rules, targetKcal, entry) ==
    LET mealTargetKcal == MealTargetKcal(targetKcal, entry.pct)
        availableRecipes == filterRecipesByRules(recipes, rules, CategoryForFilter(entry.slot))
        k == selectRecipeForCalories(availableRecipes, mealTargetKcal, rules)
    IN  IF k = 0 THEN <<>>
        ELSE LET selectedRecipe == availableRecipes[k]
                 adj == adjustPortionsForCalories(selectedRecipe, mealTargetKcal)
             IN  <<[type      |-> entry.slot,
                    recipe_id |-> selectedRecipe.id,
                    portions  |-> adj.portions,
                    completed |-> FALSE,
                    kcal      |-> adj.adjustedKcal,
                    protein   |-> RoundDiv(selectedRecipe.protein * adj.portions, 4)]>>

\* a slot loop that gives up at the first slot without a recipe
RECURSIVE SlotLoop_StopsAtGap(_, _, _, _)
SlotLoop_StopsAtGap(recipes, rules, targetKcal, entries) ==
    IF entries = <<>> THEN <<>>
    ELSE LET meal == SlotMeal(recipes, rules, targetKcal, Head(entries))
         IN  IF meal = <<>> THEN <<>>
             ELSE meal \o SlotLoop_StopsAtGap(recipes, rules, targetKcal, Tail(entries))

\* a slot loop that pushes the same slot twice
RECURSIVE SlotLoop_Repeats(_, _, _, _)
SlotLoop_Repeats(recipes, rules, targetKcal, entries) ==
    IF entries = <<>> THEN <<>>
    ELSE SlotMeal(recipes, rules, targetKcal, Head(entries))
         \o SlotMeal(recipes, rules, targetKcal, Head(entries))
         \o SlotLoop_Repeats(recipes, rules, targetKcal, Tail(entries))

RECURSIVE SlotLoop(_, _, _, _)
SlotLoop(recipes, rules, targetKcal, entries) ==
    IF entries = <<>> THEN <<>>
    ELSE SlotMeal(recipes, rules, targetKcal, Head(entries))
         \o SlotLoop(recipes, rules, targetKcal, Tail(entries))

NullPlan == [isNull |-> TRUE, meals |-> <<>>, totals |-> [kcal |-> 0, protein |-> 0],
             adherence |-> 0]

\* the calorie target generateDailyMealPlan distributes over the slots
PlanTargetKcal(user, af1000) == calculateAllMetrics(user, af1000).kcal_range.target

generateDailyMealPlan(user, recipes, af1000) ==
    LET rules == generatePersonalizationRules(user)
        template == DAY_TEMPLATES[selectDayTemplate(user, rules)]
        targetKcal == PlanTargetKcal(user, af1000)
        built == SlotLoop(recipes, rules, targetKcal, template)
    IN  IF Len(built) = 0 THEN NullPlan
        ELSE [isNull |-> FALSE,
              meals  |-> [i \in 1..Len(built) |->
                            [type |-> built[i].type, recipe_id |-> built[i].recipe_id,
                             portions |-> built[i].portions, completed |-> FALSE]],
              totals |-> [kcal    |-> SumSeq([i \in 1..Len(built) |-> built[i].kcal]),
                          protein |-> SumSeq([i \in 1..Len(built) |-> built[i].protein])],
              adherence |-> 0]

\* validateMealPlan(plan, user).valid
validateMealPlan(plan, user, af1000) ==
    LET metrics == calculateAllMetrics(user, af1000)
        kcalOut == 100 * Abs(plan.totals.kcal - metrics.kcal_range.target)
                     > 15 * metrics.kcal_range.target
        proteinOut == 100 * Abs(plan.totals.protein - metrics.macros.protein_g)
                        > 20 * metrics.macros.protein_g
    IN  ~kcalOut /\ ~proteinOut

----------------------------------------------------------------------------
(* Progress tracking engine: progressTracking.ts *)

\* [...measurements].sort by date: a stable insertion sort on the day number
RECURSIVE InsertByDay(_, _)
InsertByDay(m, sorted) ==
    IF sorted = <<>> THEN <<m>>
    ELSE IF m.day < Head(sorted).day THEN <<m>> \o sorted
         ELSE <<Head(sorted)>> \o InsertByDay(m, Tail(sorted))

RECURSIVE SortByDay(_)
SortByDay(ms) ==
    IF ms = <<>> THEN <<>>
    ELSE InsertByDay(ms[Len(ms)], SortByDay(SubSeq(ms, 1, Len(ms) - 1)))

\* the measurement closest to targetDay; the loop replaces only on diff < minDiff
ClosestIndex(sorted, targetDay) ==
    CHOOSE i \in 1..Len(sorted) :
      /\ \A j \in 1..Len(sorted) :
            Abs(sorted[i].day - targetDay) <= Abs(sorted[j].day - targetDay)
      /\ \A j \in 1..(i - 1) :
            Abs(sorted[j].day - targetDay) > Abs(sorted[i].day - targetDay)

\* weekly weight change in tenths of a percent (Math.round(pct * 10) / 10)
calculateWeeklyWeightChange(measurements, weeksBack) ==
    IF Len(measurements) < 2 THEN 0
    ELSE
      LET sortedMeasurements == SortByDay(measurements)
          latestMeasurement == sortedMeasurements[Len(sortedMeasurements)]
          targetDate == latestMeasurement.day - weeksBack * 7
          closestMeasurement == sortedMeasurements[ClosestIndex(sortedMeasurements, targetDate)]
      IN  IF closestMeasurement.w10 = latestMeasurement.w10 THEN 0
          ELSE RoundDiv(1000 * (latestMeasurement.w10 - closestMeasurement.w10),
                        closestMeasurement.w10)

CompletedMeals(plan) == Cardinality({i \in 1..Len(plan.meals) : plan.meals[i].completed})

\* per-day adherence completed/total*100 in sixtieths (a day has at most 5 meals)
DayAdherence60(plan) == (CompletedMeals(plan) * 100 * 60) \div Len(plan.meals)

\* the mean taken over every day handed in, the days without meals included
calculateMealPlanAdherence_CountsEmptyDays(mealPlans) ==
    LET valid == {i \in 1..Len(mealPlans) : Len(mealPlans[i].meals) > 0}
        totalAdherence60 ==
            SumSeq([i \in 1..Len(mealPlans) |->
                      IF i \in valid THEN DayAdherence60(mealPlans[i]) ELSE 0])
    IN  IF Len(mealPlans) > 0
        THEN RoundDiv(totalAdherence60, 60 * Len(mealPlans))
        ELSE 0

calculateMealPlanAdherence(mealPlans) ==
    LET valid == {i \in 1..Len(mealPlans) : Len(mealPlans[i].meals) > 0}
        totalAdherence60 ==
            SumSeq([i \in 1..Len(mealPlans) |->
                      IF i \in valid THEN DayAdherence60(mealPlans[i]) ELSE 0])
    IN  IF Cardinality(valid) > 0
        THEN RoundDiv(totalAdherence60, 60 * Cardinality(valid))
        ELSE 0

calculateProteinCompliance(mealPlans, user, af1000) ==
    LET proteinTarget == calculateAllMetrics(user, af1000).macros.protein_g
        Adherence(plan) == IF plan.adherence # 0 THEN plan.adherence
                           ELSE calculateMealPlanAdherence(<<plan>>)
    IN  Cardinality({i \in 1..Len(mealPlans) :
            /\ Adherence(mealPlans[i]) >= 70
            /\ 10 * mealPlans[i].totals.protein >= 9 * proteinTarget})

\* average RPE in tenths; a workout counts when completed and rpe is truthy
calculateAverageRPE(workouts) ==
    LET done == {i \in 1..Len(workouts) : workouts[i].completed /\ workouts[i].rpe # 0}
        totalRPE == SumSeq([i \in 1..Len(workouts) |->
                              IF i \in done THEN workouts[i].rpe ELSE 0])
    IN  IF done = {} THEN 0 ELSE RoundDiv(10 * totalRPE, Cardinality(done))

RecordFields == {"pushups_max", "abs_max", "plank_sec", "run_speed_kmh", "run_duration_min"}

\* previous.present = FALSE stands for an omitted previousRecords argument
detectPerformanceImprovements(currentRecords, previousRecords) ==
    IF ~previousRecords.present THEN FALSE
    ELSE Cardinality({f \in RecordFields : currentRecords[f] > previousRecords[f]}) >= 2

\* weight_trend from the weekly change in tenths of a percent
WeightTrend(weight_change_pct, measurements) ==
    LET first == IF weight_change_pct < 0 - 10 THEN "fast_loss"
                 ELSE IF 10 * weight_change_pct < 0 - 25 THEN "normal_loss"
                 ELSE IF 10 * weight_change_pct < 25 THEN "maintenance"
                 ELSE "gain"
    IN  IF 10 * weight_change_pct >= 0 - 25 /\ weight_change_pct < 0
           /\ calculateWeeklyWeightChange(measurements, 2) >= 0 - 5
        THEN "slow_loss"
        ELSE first

analyzeWeeklyProgress(user, measurements, mealPlans, workouts, currentRecords, previousRecords, af1000) ==
    LET weight_change_pct == calculateWeeklyWeightChange(measurements, 1)
        adherence_score == calculateMealPlanAdherence(mealPlans)
        protein_compliance == calculateProteinCompliance(mealPlans, user, af1000)
        avg_rpe == calculateAverageRPE(workouts)
        performance_improved == detectPerformanceImprovements(currentRecords, previousRecords)
        weight_trend == WeightTrend(weight_change_pct, measurements)
        losing == user.goal10 < user.weight10
        rule1 == weight_trend = "fast_loss" /\ losing
        rule2 == weight_trend = "slow_loss" /\ losing
        rule3 == protein_compliance < Len(mealPlans) - 3
        highRPEWorkouts == Cardinality({i \in 1..Len(workouts) :
                               workouts[i].completed /\ workouts[i].rpe >= 8})
        rule4 == avg_rpe >= 80 /\ highRPEWorkouts >= 3
        rule5 == performance_improved
    IN  [weight_change_pct |-> weight_change_pct,
         weight_trend |-> weight_trend,
         adherence_score |-> adherence_score,
         protein_compliance |-> protein_compliance,
         avg_rpe |-> avg_rpe,
         kcal_adjustment_needed |-> rule1 \/ rule2,
         volume_adjustment_needed |-> rule4 \/ rule5,
         suggestions |->
              (IF rule1 THEN <<"weight_loss_too_fast">> ELSE <<>>)
           \o (IF rule2 THEN <<"weight_loss_too_slow">> ELSE <<>>)
           \o (IF rule3 THEN <<"protein_insufficient">> ELSE <<>>)
           \o (IF rule4 THEN <<"rpe_too_high">> ELSE <<>>)
           \o (IF rule5 THEN <<"performance_improved">> ELSE <<>>)
           \o (IF adherence_score < 70 THEN <<"low_adherence">>
               ELSE IF adherence_score >= 90 THEN <<"excellent_adherence">>
               ELSE <<>>)]

\* the -5% rule without the Math.max against minSafe
SlowLossTarget_NoFloor(currentKcal, user) == RoundDiv(currentKcal * 95, 100)

\* new_kcal_target after the -5% rule: rounded, then raised to the safety floor
SlowLossTarget(currentKcal, user) ==
    Max(RoundDiv(currentKcal * 95, 100), MinSafeKcal(user.sex))

\* new_kcal_target after the +5% rule
FastLossTarget(currentKcal) == RoundDiv(currentKcal * 105, 100)

\* has_kcal / has_volume tell whether the optional fields are set;
\* volume_multiplier is kept in thousandths (0.9 = 900, 1.075 = 1075)
applyAutomaticAdjustments(user, an, af1000) ==
    LET currentKcal == calculateAllMetrics(user, af1000).kcal_range.target
        fast == an.kcal_adjustment_needed /\ an.weight_trend = "fast_loss"
        slow == an.kcal_adjustment_needed /\ an.weight_trend = "slow_loss"
        vol == an.volume_adjustment_needed
    IN  [has_kcal |-> fast \/ slow,
         new_kcal_target |-> IF fast THEN FastLossTarget(currentKcal)
                             ELSE IF slow THEN SlowLossTarget(currentKcal, user)
                             ELSE 0,
         has_volume |-> vol,
         volume_multiplier |-> IF ~vol THEN 0
                               ELSE IF an.avg_rpe >= 80 THEN 900 ELSE 1075,
         applied_rules |->
              (IF fast THEN <<"weight_loss_too_fast">>
               ELSE IF slow THEN <<"weight_loss_too_slow">> ELSE <<>>)
           \o (IF ~vol THEN <<>>
               ELSE IF an.avg_rpe >= 80 THEN <<"rpe_too_high">>
               ELSE <<"performance_improved">>)]

----------------------------------------------------------------------------
(* Shopping list generator: shoppingListGenerator.ts *)

RECURSIVE GCD(_, _)
GCD(a, b) == IF b = 0 THEN a ELSE GCD(b, a % b)

\* exact non-negative rationals <<numerator, denominator>> in lowest terms
RNorm(r) == LET g == GCD(r[1], r[2]) IN IF g = 0 THEN <<0, 1>> ELSE <<r[1] \div g, r[2] \div g>>

RMul(a, b) == RNorm(<<a[1] * b[1], a[2] * b[2]>>)

RSub(a, b) ==
    LET l == (a[2] \div GCD(a[2], b[2])) * b[2]
    IN  RNorm(<<a[1] * (l \div a[2]) - b[1] * (l \div b[2]), l>>)

RRound(r) == RoundDiv(r[1], r[2])

STORE_CONFIGS ==
    [supermarket |-> [baes_discount |-> 0, seasonal_discount |-> 5,
                      bulk_discount_threshold |-> 2000, bulk_discount_pct |-> 8,
                      delivery_cost |-> 2000],
     market      |-> [baes_discount |-> 15, seasonal_discount |-> 20,
                      bulk_discount_threshold |-> 1000, bulk_discount_pct |-> 12,
                      delivery_cost |-> 0],
     baes        |-> [baes_discount |-> 25, seasonal_discount |-> 10,
                      bulk_discount_threshold |-> 500, bulk_discount_pct |-> 15,
                      delivery_cost |-> 0]]

highPriorityFoods == {"chicken_breast", "ground_beef_lean", "white_fish", "eggs", "protein_powder"}

mediumPriorityFoods == {"mushrooms", "onion", "zucchini", "green_beans", "cucumber"}

MediumPriorityGrams == 500

determineIngredientPriority(foodId, g4) ==
    IF foodId \in highPriorityFoods THEN "high"
    ELSE IF foodId \in mediumPriorityFoods /\ g4 >= 4 * MediumPriorityGrams THEN "medium"
    ELSE "low"

\* recipes.find(r => r.id === id): index of the first match, 0 when none
FindRecipe(recipes, id) ==
    IF \E i \in 1..Len(recipes) : recipes[i].id = id
    THEN CHOOSE i \in 1..Len(recipes) :
           recipes[i].id = id /\ \A j \in 1..(i - 1) : recipes[j].id # id
    ELSE 0

\* the ingredient uses of one meal, in recipe order, scaled by the portions
MealUses(meal, recipes) ==
    LET k == FindRecipe(recipes, meal.recipe_id)
    IN  IF k = 0 THEN <<>>
        ELSE [i \in 1..Len(recipes[k].ingredients) |->
                [food_id   |-> recipes[k].ingredients[i].food_id,
                 g4        |-> recipes[k].ingredients[i].grams * meal.portions,
                 recipe_id |-> recipes[k].id]]

RECURSIVE MealsUses(_, _)
MealsUses(meals, recipes) ==
    IF meals = <<>> THEN <<>>
    ELSE MealUses(Head(meals), recipes) \o MealsUses(Tail(meals), recipes)

RECURSIVE PlansUses(_, _)
PlansUses(mealPlans, recipes) ==
    IF mealPlans = <<>> THEN <<>>
    ELSE MealsUses(Head(mealPlans).meals, recipes) \o PlansUses(Tail(mealPlans), recipes)

\* ingredientMap after one more use: add to the existing entry, or insert a new
\* entry whose priority is computed from the grams of this first use
AddUse(entries, use) ==
    IF \E i \in 1..Len(entries) : entries[i].food_id = use.food_id
    THEN [i \in 1..Len(entries) |->
            IF entries[i].food_id = use.food_id
            THEN [entries[i] EXCEPT !.total_g4 = @ + use.g4,
                                    !.used_in_recipes = @ \cup {use.recipe_id}]
            ELSE entries[i]]
    ELSE Append(entries, [food_id |-> use.food_id,
                          total_g4 |-> use.g4,
                          used_in_recipes |-> {use.recipe_id},
                          priority |-> determineIngredientPriority(use.food_id, use.g4)])

RECURSIVE FoldUses(_, _)
FoldUses(entries, uses) ==
    IF uses = <<>> THEN entries
    ELSE CHOOSE result \in {FoldUses(next, Tail(uses)) :
                               next \in {AddUse(entries, Head(uses))}} : TRUE

consolidateIngredients(mealPlans, recipes) == FoldUses(<<>>, PlansUses(mealPlans, recipes))

\* final_price - final_price * (pct / 100)
ApplyDiscount(final_price, pct) == RSub(final_price, RMul(final_price, <<pct, 100>>))

\* the BAES discount granted to every budget level
calculateDiscountedPrice_BaesForAll(basePrice, foodItem, g4, storeConfig, user, currentMonth) ==
    LET original_price == RoundDiv(basePrice * g4, 4000)
        p0 == <<original_price, 1>>
        p1 == IF storeConfig.baes_discount > 0
              THEN ApplyDiscount(p0, storeConfig.baes_discount) ELSE p0
        p2 == IF currentMonth \in foodItem.seasonal_months
              THEN ApplyDiscount(p1, storeConfig.seasonal_discount) ELSE p1
        p3 == IF g4 >= 4 * storeConfig.bulk_discount_threshold
              THEN ApplyDiscount(p2, storeConfig.bulk_discount_pct) ELSE p2
    IN  [original_price |-> original_price, final_price |-> RRound(p3)]

calculateDiscountedPrice(basePrice, foodItem, g4, storeConfig, user, currentMonth) ==
    LET original_price == RoundDiv(basePrice * g4, 4000)
        p0 == <<original_price, 1>>
        p1 == IF user.budget_level = "low" /\ storeConfig.baes_discount > 0
              THEN ApplyDiscount(p0, storeConfig.baes_discount) ELSE p0
        p2 == IF currentMonth \in foodItem.seasonal_months
              THEN ApplyDiscount(p1, storeConfig.seasonal_discount) ELSE p1
        p3 == IF g4 >= 4 * storeConfig.bulk_discount_threshold
              THEN ApplyDiscount(p2, storeConfig.bulk_discount_pct) ELSE p2
    IN  [original_price |-> original_price, final_price |-> RRound(p3)]

\* the discount store offered to every user
AvailableStores_BaesForAll(user) == <<"supermarket", "market", "baes">>

AvailableStores(user) ==
    IF user.budget_level = "low" THEN <<"supermarket", "market", "baes">>
    ELSE <<"supermarket", "market">>

\* foodItems.find(f => f.id === id): index of the first match, 0 when none
FindFood(foodItems, id) ==
    IF \E i \in 1..Len(foodItems) : foodItems[i].id = id
    THEN CHOOSE i \in 1..Len(foodItems) :
           foodItems[i].id = id /\ \A j \in 1..(i - 1) : foodItems[j].id # id
    ELSE 0

\* the store comparison loop: the first store with the strictly lowest price
BestStore(ingredient, foodItem, user, currentMonth) ==
    LET stores == AvailableStores(user)
        Price(i) == calculateDiscountedPrice(foodItem.cost_per_kg, foodItem,
                        ingredient.total_g4, STORE_CONFIGS[stores[i]], user, currentMonth)
        b == CHOOSE i \in 1..Len(stores) :
               /\ \A j \in 1..Len(stores) : Price(i).final_price <= Price(j).final_price
               /\ \A j \in 1..(i - 1) : Price(j).final_price > Price(i).final_price
    IN  [store   |-> stores[b],
         price   |-> Price(b).final_price,
         savings |-> Price(b).original_price - Price(b).final_price]

\* delivery charged for every store, with or without items
AddsDelivery_Always(distribution, store) == TRUE

\* whether a store adds its delivery cost once it holds items
AddsDelivery(distribution, store) == Len(distribution[store]) > 0

\* the assignment loop of optimizeStoreDistribution over the ingredient list
RECURSIVE AssignLoop(_, _, _, _, _)
AssignLoop(acc, ingredients, foodItems, user, currentMonth) ==
    IF ingredients = <<>> THEN acc
    ELSE
      LET ingredient == Head(ingredients)
          f == FindFood(foodItems, ingredient.food_id)
          Assigned(best) ==
              [distribution |->
                  [acc.distribution EXCEPT ![best.store] = Append(@, ingredient)],
               cost_breakdown |->
                  [acc.cost_breakdown EXCEPT ![best.store] = @ + best.price],
               total_cost |-> acc.total_cost + best.price,
               total_savings |-> acc.total_savings + best.savings]
          \* the totals after this iteration, computed once
          after == IF f = 0 \/ (f # 0 /\ foodItems[f].cost_per_kg = 0)
                   THEN {acc}
                   ELSE {Assigned(best) :
                           best \in {BestStore(ingredient, foodItems[f], user, currentMonth)}}
      IN  CHOOSE result \in {AssignLoop(next, Tail(ingredients), foodItems, user, currentMonth) :
                                next \in after} : TRUE

\* the delivery loop over Object.entries(distribution)
RECURSIVE DeliveryLoop(_, _)
DeliveryLoop(acc, stores) ==
    IF stores = <<>> THEN acc
    ELSE
      LET store == Head(stores)
          cost == STORE_CONFIGS[store].delivery_cost
          after == IF AddsDelivery(acc.distribution, store) /\ cost # 0
                   THEN {[acc EXCEPT !.cost_breakdown[store] = @ + cost,
                                     !.total_cost = @ + cost]}
                   ELSE {acc}
      IN  CHOOSE result \in {DeliveryLoop(next, Tail(stores)) : next \in after} : TRUE

optimizeStoreDistribution(consolidatedIngredients, foodItems, user, currentMonth) ==
    LET stores == AvailableStores(user)
        init == [distribution   |-> [st \in SeqToSet(stores) |-> <<>>],
                 cost_breakdown |-> [st \in SeqToSet(stores) |-> 0],
                 total_cost     |-> 0,
                 total_savings  |-> 0]
        assigned == {AssignLoop(init, consolidatedIngredients, foodItems, user, currentMonth)}
    IN  CHOOSE result \in {DeliveryLoop(acc, stores) : acc \in assigned} : TRUE

\* the shopping items of one store, priced again at the month read in the item loop
StoreItems(store, ingredients, foodItems, user, itemMonth) ==
    LET Known(ingredient) == FindFood(foodItems, ingredient.food_id) # 0
        kept == SelectSeq(ingredients, Known)
    IN  [i \in 1..Len(kept) |->
           LET foodItem == foodItems[FindFood(foodItems, kept[i].food_id)]
           IN  [food_id       |-> kept[i].food_id,
                grams_total   |-> kept[i].total_g4,
                store_hint    |-> store,
                priority      |-> kept[i].priority,
                cost_estimate |-> calculateDiscountedPrice(foodItem.cost_per_kg, foodItem,
                                     kept[i].total_g4, STORE_CONFIGS[store], user,
                                     itemMonth).final_price]]

RECURSIVE ItemLoop(_, _, _, _, _)
ItemLoop(stores, distribution, foodItems, user, itemMonth) ==
    IF stores = <<>> THEN <<>>
    ELSE StoreItems(Head(stores), distribution[Head(stores)], foodItems, user, itemMonth)
         \o ItemLoop(Tail(stores), distribution, foodItems, user, itemMonth)

\* the store mode without the low-budget branch
StoreMode_NeverBaes(cost_breakdown, user) ==
    LET stores == AvailableStores(user)
        Paid(st) == cost_breakdown[st] > 0
        storeCosts == SelectSeq(stores, Paid)
    IN  IF Len(storeCosts) = 1 THEN storeCosts[1] ELSE "mixed"

StoreMode(cost_breakdown, user) ==
    LET stores == AvailableStores(user)
        Paid(st) == cost_breakdown[st] > 0
        storeCosts == SelectSeq(stores, Paid)
    IN  IF Len(storeCosts) = 1 THEN storeCosts[1]
        ELSE IF user.budget_level = "low" THEN "baes"
        ELSE "mixed"

\* optMonth and itemMonth are the two readings of new Date().getMonth() + 1
generateWeeklyShoppingList(user, mealPlans, recipes, foodItems, optMonth, itemMonth) ==
    LET ShoppingList(optimization) ==
          [items |-> ItemLoop(AvailableStores(user), optimization.distribution, foodItems,
                              user, itemMonth),
           total_cost_estimate |-> optimization.total_cost,
           store_mode |-> StoreMode(optimization.cost_breakdown, user),
           optimization |-> optimization]
        \* const optimization = optimizeStoreDistribution(...): computed once
        computed == {optimizeStoreDistribution(consolidatedIngredients, foodItems, user, optMonth) :
                        consolidatedIngredients \in {consolidateIngredients(mealPlans, recipes)}}
    IN  CHOOSE list \in {ShoppingList(optimization) : optimization \in computed} : TRUE

----------------------------------------------------------------------------
(* Workout plan generator: googleCalendar.ts, lines 733-1399 *)

\* WORKOUT_TEMPLATES; blocks keep the block type and duration
WORKOUT_TEMPLATES ==
    <<[id |-> "hiit_short", type |-> "hiit", duration_min |-> 23,
       required_equipment |-> {"treadmill"},
       fitness_level |-> {"beginner", "intermediate", "advanced"},
       blocks |-> <<[type |-> "warmup", duration_min |-> 5],
                    [type |-> "run", duration_min |-> 10],
                    [type |-> "hiit", duration_min |-> 8]>>],
      [id |-> "run_continuous", type |-> "run", duration_min |-> 35,
       required_equipment |-> {"treadmill"},
       fitness_level |-> {"intermediate", "advanced"},
       blocks |-> <<[type |-> "warmup", duration_min |-> 5],
                    [type |-> "run", duration_min |-> 25],
                    [type |-> "cooldown", duration_min |-> 5]>>],
      [id |-> "strength_bodyweight", type |-> "strength", duration_min |-> 23,
       required_equipment |-> {"mat"},
       fitness_level |-> {"beginner", "intermediate", "advanced"},
       blocks |-> <<[type |-> "warmup", duration_min |-> 3],
                    [type |-> "strength", duration_min |-> 15],
                    [type |-> "run", duration_min |-> 5]>>],
      [id |-> "strength_dumbbells", type |-> "mixed", duration_min |-> 25,
       required_equipment |-> {"dumbbells_kg", "treadmill"},
       fitness_level |-> {"intermediate", "advanced"},
       blocks |-> <<[type |-> "warmup", duration_min |-> 5],
                    [type |-> "strength", duration_min |-> 10],
                    [type |-> "run", duration_min |-> 10]>>],
      [id |-> "beginner_basic", type |-> "mixed", duration_min |-> 20,
       required_equipment |-> {"mat"},
       fitness_level |-> {"beginner"},
       blocks |-> <<[type |-> "warmup", duration_min |-> 5],
                    [type |-> "strength", duration_min |-> 12],
                    [type |-> "cooldown", duration_min |-> 3]>>]>>

\* the details record of every block of WORKOUT_TEMPLATES: the fields that
\* progressWorkout reads and rewrites in its copies
BLOCK_DETAILS ==
    [hiit_short |->
        <<[intensity |-> "low"], [speed_kmh |-> 6], [work_sec |-> 60, rest_sec |-> 240]>>,
     run_continuous |->
        <<[intensity |-> "low"], [speed_kmh |-> 8], [intensity |-> "low"]>>,
     strength_bodyweight |->
        <<[intensity |-> "low"],
          [exercises |-> <<[name |-> "Flexiones", reps |-> "AMRAP", duration_sec |-> 0],
                           [name |-> "Abdominales", reps |-> 30, duration_sec |-> 0],
                           [name |-> "Plancha", reps |-> "time", duration_sec |-> 45]>>],
          [speed_kmh |-> 0]>>,
     strength_dumbbells |->
        <<[intensity |-> "low"],
          [exercises |-> <<[name |-> "Shadow boxing con mancuernas", reps |-> "time",
                            duration_sec |-> 120]>>],
          [speed_kmh |-> 5]>>,
     beginner_basic |->
        <<[intensity |-> "low"],
          [exercises |-> <<[name |-> "Flexiones (modificadas si es necesario)",
                            reps |-> 10, duration_sec |-> 0],
                           [name |-> "Sentadillas", reps |-> 15, duration_sec |-> 0],
                           [name |-> "Plancha", reps |-> "time", duration_sec |-> 20]>>],
          [intensity |-> "low"]>>]

evaluateFitnessLevel(personalRecords, user) ==
    LET isMan == user.sex = "male"
        pushups == IF isMan
                   THEN (IF personalRecords.pushups_max >= 30 THEN 2
                         ELSE IF personalRecords.pushups_max >= 15 THEN 1 ELSE 0)
                   ELSE (IF personalRecords.pushups_max >= 20 THEN 2
                         ELSE IF personalRecords.pushups_max >= 10 THEN 1 ELSE 0)
        plank == IF personalRecords.plank_sec >= 90 THEN 2
                 ELSE IF personalRecords.plank_sec >= 45 THEN 1 ELSE 0
        speed == IF personalRecords.run_speed_kmh >= 10 THEN 2
                 ELSE IF personalRecords.run_speed_kmh >= 7 THEN 1 ELSE 0
        duration == IF personalRecords.run_duration_min >= 30 THEN 2
                    ELSE IF personalRecords.run_duration_min >= 15 THEN 1 ELSE 0
        score == pushups + plank + speed + duration
    IN  IF score >= 6 THEN "advanced"
        ELSE IF score >= 3 THEN "intermediate"
        ELSE "beginner"

\* the switch with dumbbells accepted whatever their weight
HasEquipment_AnyDumbbells(equipment, reqEquip) ==
    CASE reqEquip = "treadmill" -> equipment.treadmill
      [] reqEquip = "dumbbells_kg" -> TRUE
      [] reqEquip = "rope" -> equipment.rope
      [] reqEquip = "mat" -> equipment.mat
      [] reqEquip = "resistance_bands" -> equipment.resistance_bands
      [] OTHER -> FALSE

\* the switch of filterWorkoutsByEquipment on one required capability
HasEquipment(equipment, reqEquip) ==
    CASE reqEquip = "treadmill" -> equipment.treadmill
      [] reqEquip = "dumbbells_kg" -> equipment.dumbbells_kg > 0
      [] reqEquip = "rope" -> equipment.rope
      [] reqEquip = "mat" -> equipment.mat
      [] reqEquip = "resistance_bands" -> equipment.resistance_bands
      [] OTHER -> FALSE

TemplateEligible(template, equipment) ==
    \A reqEquip \in template.required_equipment : HasEquipment(equipment, reqEquip)

filterWorkoutsByEquipment(templates, equipment) ==
    LET Eligible(template) == TemplateEligible(template, equipment)
    IN  SelectSeq(templates, Eligible)

\* the preference score of selectBestWorkout in fifths of a point;
\* preferred_duration = 0 and preferred_type = "none" stand for absent fields
WorkoutScore5(template, preferences) ==
      (IF preferences.preferred_duration # 0
       THEN Max(0, 50 - Abs(template.duration_min - preferences.preferred_duration))
       ELSE 0)
    + (IF \/ preferences.preferred_type = "cardio" /\ template.type \in {"run", "hiit"}
          \/ preferences.preferred_type = "strength" /\ template.type = "strength"
          \/ preferences.preferred_type = "mixed" /\ template.type = "mixed"
       THEN 25 ELSE 0)
    - (IF preferences.avoid_high_impact /\ template.type \in {"hiit", "run"}
       THEN 15 ELSE 0)

\* the selected template; called with a non-empty list only
selectBestWorkout(availableTemplates, fitnessLevel, preferences) ==
    LET Fits(template) == fitnessLevel \in template.fitness_level
        levelAppropriate == SelectSeq(availableTemplates, Fits)
    IN  IF Len(levelAppropriate) = 0 THEN availableTemplates[1]
        ELSE levelAppropriate[
               CHOOSE i \in 1..Len(levelAppropriate) :
                 /\ \A j \in 1..Len(levelAppropriate) :
                       WorkoutScore5(levelAppropriate[j], preferences)
                         <= WorkoutScore5(levelAppropriate[i], preferences)
                 /\ \A j \in 1..(i - 1) :
                       WorkoutScore5(levelAppropriate[j], preferences)
                         < WorkoutScore5(levelAppropriate[i], preferences)]

\* The map callback of progressWorkout evaluates user.weight_kg (line 1152),
\* but progressWorkout has no parameter or enclosing binding named user: the
\* first block raises a ReferenceError, so the call throws unless the template
\* has no block
progressWorkoutThrows(template) == Len(template.blocks) > 0

\* intensityMultiplier in hundredths
IntensityMultiplier(fitnessLevel) ==
    IF fitnessLevel = "beginner" THEN 80 ELSE IF fitnessLevel = "advanced" THEN 120 ELSE 100

\* exercise.name.toLowerCase().includes(word) on the exercise names of the catalog
NameIncludes(name, word) ==
    <<name, word>> \in {<<"Flexiones", "flexion">>,
                        <<"Flexiones (modificadas si es necesario)", "flexion">>,
                        <<"Plancha", "plancha">>, <<"Abdominales", "abdominal">>}

\* typeof exercise.reps === 'number' on the exercises of the catalog; the
\* others carry 'AMRAP' or 'time'
RepsIsNumber(exercise) ==
    exercise.name \in {"Abdominales", "Flexiones (modificadas si es necesario)", "Sentadillas"}

\* one exercise of a strength block after the adjustments of lines 1099-1123
ProgressExercise(exercise, personalRecords, intensity) ==
    LET reps1 == IF NameIncludes(exercise.name, "flexion") /\ RepsIsNumber(exercise)
                 THEN Max(5, RoundDiv(personalRecords.pushups_max * 7 * intensity, 1000))
                 ELSE exercise.reps
        secs == IF NameIncludes(exercise.name, "plancha") /\ exercise.duration_sec # 0
                THEN Max(15, RoundDiv(personalRecords.plank_sec * 8 * intensity, 1000))
                ELSE exercise.duration_sec
        reps2 == IF NameIncludes(exercise.name, "abdominal") /\ RepsIsNumber(exercise)
                 THEN Max(10, RoundDiv(personalRecords.abs_max * 7 * intensity, 1000))
                 ELSE reps1
    IN  [name |-> exercise.name, reps |-> reps2, duration_sec |-> secs]

\* the details of one block as progressWorkout rewrites them; speed_kmh is
\* returned in hundredths. sessionMultiplier (line 1092) is computed from
\* sessionNumber and used in no expression, so sessionNumber has no effect
ProgressDetails(type, details, personalRecords, fitnessLevel, sessionNumber) ==
    LET intensity == IntensityMultiplier(fitnessLevel)
    IN  IF type = "strength" /\ "exercises" \in DOMAIN details
        THEN [exercises |-> [i \in 1..Len(details.exercises) |->
                 ProgressExercise(details.exercises[i], personalRecords, intensity)]]
        ELSE IF type = "run" /\ "speed_kmh" \in DOMAIN details
        THEN [speed_kmh100 |-> Max(500, details.speed_kmh * intensity)]
        ELSE IF type = "hiit" /\ "work_sec" \in DOMAIN details
        THEN [work_sec |-> RoundDiv(details.work_sec * intensity, 100),
              rest_sec |-> RoundDiv(details.rest_sec * 100, intensity)]
        ELSE details

\* the blocks progressWorkout returns when no block throws
progressWorkout(template, personalRecords, fitnessLevel, sessionNumber) ==
    [b \in 1..Len(template.blocks) |->
        [type |-> template.blocks[b].type,
         details |-> ProgressDetails(template.blocks[b].type, BLOCK_DETAILS[template.id][b],
                                     personalRecords, fitnessLevel, sessionNumber)]]

SessionNumber(daysDiff) == (daysDiff \div 2) + 1

NullWorkout == [isNull |-> TRUE, template_id |-> "none", duration_min |-> 0,
                fitnessLevel |-> "none", sessionNumber |-> 0, blocks |-> <<>>]

\* the catch block of generateWorkoutPlan turns every exception into null
generateWorkoutPlan(user, personalRecords, daysDiff, preferences) ==
    LET fitnessLevel == evaluateFitnessLevel(personalRecords, user)
        availableTemplates == filterWorkoutsByEquipment(WORKOUT_TEMPLATES, user.equipment)
    IN  IF Len(availableTemplates) = 0 THEN NullWorkout
        ELSE
          LET selectedTemplate == selectBestWorkout(availableTemplates, fitnessLevel,
                                                    preferences)
          IN  IF progressWorkoutThrows(selectedTemplate) THEN NullWorkout
              ELSE [isNull |-> FALSE, template_id |-> selectedTemplate.id,
                    duration_min |-> selectedTemplate.duration_min,
                    fitnessLevel |-> fitnessLevel,
                    sessionNumber |-> SessionNumber(daysDiff),
                    blocks |-> progressWorkout(selectedTemplate, personalRecords,
                                               fitnessLevel, SessionNumber(daysDiff))]

----------------------------------------------------------------------------
(* User store: userStore.ts *)

NullUser ==
    [present |-> FALSE, sex |-> "female", age |-> 0, height_cm |-> 0, weight10 |-> 0,
     goal10 |-> 0, kcal_target |-> 0, budget_level |-> "medium", no_oil |-> FALSE,
     no_sugar |-> FALSE, dislikes |-> {}, likes |-> {}, ldl |-> 0,
     equipment |-> [treadmill |-> FALSE, dumbbells_kg |-> 0, rope |-> FALSE,
                    mat |-> FALSE, resistance_bands |-> FALSE]]

NullMetrics ==
    [present |-> FALSE, bmr_mifflin |-> 0, tdee |-> 0,
     kcal_range |-> [min |-> 0, max |-> 0, target |-> 0],
     macros |-> [protein_g |-> 0, fat_g |-> 0, carbs_g |-> 0]]

\* calculateAllMetrics(user, 1.55) as stored in currentMetrics
StoreMetrics(user) ==
    LET m == calculateAllMetrics(user, DefaultActivity)
    IN  [present |-> TRUE, bmr_mifflin |-> m.bmr_mifflin, tdee |-> m.tdee,
         kcal_range |-> m.kcal_range, macros |-> m.macros]

\* { ...currentUser, ...updates }: updates is a record of the overwritten fields
MergeUser(user, updates) ==
    [f \in DOMAIN user |-> IF f \in DOMAIN updates THEN updates[f] ELSE user[f]]

----------------------------------------------------------------------------
(* Input domains of the model *)

MaxPending == 2

MaxMeasurements == 3

MaxDays == 2

DemoKcalTarget == 1400

\* weights in tenths of a kilogram that updateWeight is called with
LoggedWeights == {690}

\* calorie targets that updateKcalTarget is called with
EnteredTargets == {1650}

Sexes == {"male", "female"}

UserWeights == {500, 700}

GoalWeights == {440, 650}

\* age and height travel with the sex in the user population of the model
FrameAge(sex) == IF sex = "male" THEN 28 ELSE 60

FrameHeight(sex) == IF sex = "male" THEN 175 ELSE 150

AllEquipment == [treadmill |-> TRUE, dumbbells_kg |-> 3, rope |-> TRUE, mat |-> TRUE,
                 resistance_bands |-> FALSE]

MatOnly == [treadmill |-> FALSE, dumbbells_kg |-> 0, rope |-> FALSE, mat |-> TRUE,
            resistance_bands |-> FALSE]

NoEquipment == [treadmill |-> FALSE, dumbbells_kg |-> 0, rope |-> FALSE, mat |-> FALSE,
                resistance_bands |-> FALSE]

TreadmillOnly == [treadmill |-> TRUE, dumbbells_kg |-> 0, rope |-> FALSE, mat |-> FALSE,
                  resistance_bands |-> FALSE]

\* budget tier, dietary preferences, LDL and equipment of the modelled users
Profiles ==
    {[budget_level |-> "low", no_oil |-> TRUE, no_sugar |-> TRUE, dislikes |-> {"Fish"},
      likes |-> {"chicken"}, ldl |-> 120, equipment |-> AllEquipment],
     [budget_level |-> "medium", no_oil |-> FALSE, no_sugar |-> FALSE, dislikes |-> {},
      likes |-> {"batch_cooking"}, ldl |-> 150, equipment |-> MatOnly],
     [budget_level |-> "low", no_oil |-> FALSE, no_sugar |-> TRUE, dislikes |-> {},
      likes |-> {"ayuno_intermitente"}, ldl |-> 120, equipment |-> NoEquipment],
     [budget_level |-> "medium", no_oil |-> TRUE, no_sugar |-> FALSE,
      dislikes |-> {"chicken"}, likes |-> {}, ldl |-> 120, equipment |-> TreadmillOnly]}

Users ==
    {[present |-> TRUE, sex |-> sx, age |-> FrameAge(sx), height_cm |-> FrameHeight(sx),
      weight10 |-> w, goal10 |-> g, kcal_target |-> DemoKcalTarget,
      budget_level |-> p.budget_level, no_oil |-> p.no_oil, no_sugar |-> p.no_sugar,
      dislikes |-> p.dislikes, likes |-> p.likes, ldl |-> p.ldl,
      equipment |-> p.equipment] :
        sx \in Sexes, w \in UserWeights, g \in GoalWeights, p \in Profiles}

\* the recipe catalog the model draws its recipe lists from
RecipePool ==
    <<[id |-> "r1", category |-> "desayuno", tags |-> {"sin_aceite", "sin_azucar", "rapida"},
       ingredients |-> <<[food_id |-> "oats", grams |-> 60], [food_id |-> "eggs", grams |-> 100]>>,
       kcal |-> 350, protein |-> 22, prep_time_min |-> 5, cooking_time_min |-> 5,
       cost_estimate |-> 800],
      [id |-> "r2", category |-> "desayuno", tags |-> {"sin_azucar"},
       ingredients |-> <<[food_id |-> "eggs", grams |-> 120], [food_id |-> "olive_oil", grams |-> 10]>>,
       kcal |-> 300, protein |-> 18, prep_time_min |-> 5, cooking_time_min |-> 10,
       cost_estimate |-> 900],
      [id |-> "r3", category |-> "almuerzo",
       tags |-> {"sin_aceite", "sin_azucar", "alta_prote", "batch_cooking"},
       ingredients |-> <<[food_id |-> "chicken_breast", grams |-> 200],
                         [food_id |-> "zucchini", grams |-> 150]>>,
       kcal |-> 550, protein |-> 48, prep_time_min |-> 15, cooking_time_min |-> 25,
       cost_estimate |-> 1800],
      [id |-> "r4", category |-> "almuerzo", tags |-> {"sin_aceite", "sin_azucar", "budget"},
       ingredients |-> <<[food_id |-> "white_fish", grams |-> 150],
                         [food_id |-> "zucchini", grams |-> 100]>>,
       kcal |-> 600, protein |-> 40, prep_time_min |-> 10, cooking_time_min |-> 15,
       cost_estimate |-> 1400],
      [id |-> "r5", category |-> "colacion", tags |-> {"sin_aceite", "sin_azucar"},
       ingredients |-> <<[food_id |-> "oats", grams |-> 40]>>,
       kcal |-> 150, protein |-> 8, prep_time_min |-> 5, cooking_time_min |-> 0,
       cost_estimate |-> 300],
      [id |-> "r6", category |-> "colacion", tags |-> {"sin_aceite", "rapida"},
       ingredients |-> <<[food_id |-> "oats", grams |-> 50], [food_id |-> "sugar", grams |-> 10]>>,
       kcal |-> 250, protein |-> 6, prep_time_min |-> 2, cooking_time_min |-> 0,
       cost_estimate |-> 250],
      [id |-> "r7", category |-> "cena",
       tags |-> {"sin_aceite", "sin_azucar", "colesterol_friendly"},
       ingredients |-> <<[food_id |-> "chicken_breast", grams |-> 150]>>,
       kcal |-> 450, protein |-> 40, prep_time_min |-> 10, cooking_time_min |-> 15,
       cost_estimate |-> 1600],
      [id |-> "r8", category |-> "cena", tags |-> {"alta_prote"},
       ingredients |-> <<[food_id |-> "white_fish", grams |-> 180],
                         [food_id |-> "olive_oil", grams |-> 15]>>,
       kcal |-> 500, protein |-> 42, prep_time_min |-> 20, cooking_time_min |-> 20,
       cost_estimate |-> 2000]>>

\* every recipe list obtained from the pool by leaving recipes out
Catalogs ==
    {LET In(r) == r.id \in ids IN SelectSeq(RecipePool, In) :
        ids \in SUBSET {RecipePool[i].id : i \in 1..Len(RecipePool)}}

RecipeById(id) == CHOOSE r \in SeqToSet(RecipePool) : r.id = id

FoodItems ==
    <<[id |-> "chicken_breast", cost_per_kg |-> 6000, seasonal_months |-> {}],
      [id |-> "white_fish", cost_per_kg |-> 8000, seasonal_months |-> {}],
      [id |-> "oats", cost_per_kg |-> 1990, seasonal_months |-> {}],
      [id |-> "eggs", cost_per_kg |-> 3000, seasonal_months |-> {}],
      [id |-> "zucchini", cost_per_kg |-> 1500, seasonal_months |-> {1, 2, 12}],
      \* cost_per_kg = 0 stands for an item without a price
      [id |-> "olive_oil", cost_per_kg |-> 0, seasonal_months |-> {}]>>

Months == {1, 6, 12}

NextMonth(m) == IF m = 12 THEN 1 ELSE m + 1

\* plan days handed to the shopping list generator and to the progress analysis
DayPool ==
    {[isNull |-> FALSE,
      meals |-> <<[type |-> "almuerzo", recipe_id |-> "r3", portions |-> 8, completed |-> TRUE],
                  [type |-> "cena", recipe_id |-> "r7", portions |-> 4, completed |-> FALSE],
                  [type |-> "colacion", recipe_id |-> "r5", portions |-> 3, completed |-> FALSE]>>,
      totals |-> [kcal |-> 1663, protein |-> 142], adherence |-> 0],
     [isNull |-> FALSE,
      meals |-> <<[type |-> "desayuno", recipe_id |-> "r1", portions |-> 4, completed |-> TRUE],
                  [type |-> "almuerzo", recipe_id |-> "r4", portions |-> 6, completed |-> TRUE],
                  [type |-> "cena", recipe_id |-> "r8", portions |-> 4, completed |-> TRUE]>>,
      totals |-> [kcal |-> 1750, protein |-> 124], adherence |-> 0],
     [isNull |-> FALSE,
      meals |-> <<[type |-> "almuerzo", recipe_id |-> "r3", portions |-> 8, completed |-> FALSE],
                  [type |-> "cena", recipe_id |-> "r9", portions |-> 4, completed |-> FALSE]>>,
      totals |-> [kcal |-> 1100, protein |-> 40], adherence |-> 80]}

RECURSIVE SeqsUpTo(_, _)
SeqsUpTo(S, n) ==
    IF n = 0 THEN {<<>>}
    ELSE LET shorter == SeqsUpTo(S, n - 1)
         IN  shorter \cup {Append(q, x) : q \in shorter, x \in S}

PlanWeeks == SeqsUpTo(DayPool, MaxDays)

MeasuredWeights == {980, 990, 998, 1000}

\* weigh-ins taken one week apart, handed over oldest first or newest first
RECURSIVE Reverse(_)
Reverse(q) == IF q = <<>> THEN <<>> ELSE Append(Reverse(Tail(q)), Head(q))

WeighIns ==
    LET dated == {[i \in 1..Len(ws) |-> [day |-> 7 * (i - 1), w10 |-> ws[i]]] :
                     ws \in SeqsUpTo(MeasuredWeights, MaxMeasurements)}
    IN  dated \cup {Reverse(q) : q \in dated}

WorkoutLogs ==
    {<<>>,
     <<[completed |-> TRUE, rpe |-> 8], [completed |-> TRUE, rpe |-> 9],
       [completed |-> TRUE, rpe |-> 8], [completed |-> FALSE, rpe |-> 0]>>,
     <<[completed |-> TRUE, rpe |-> 6], [completed |-> TRUE, rpe |-> 7]>>,
     <<[completed |-> TRUE, rpe |-> 9], [completed |-> TRUE, rpe |-> 8],
       [completed |-> FALSE, rpe |-> 0]>>}

BaseRecords == [present |-> TRUE, pushups_max |-> 12, abs_max |-> 20, plank_sec |-> 50,
                run_speed_kmh |-> 8, run_duration_min |-> 20]

BetterRecords == [present |-> TRUE, pushups_max |-> 32, abs_max |-> 20, plank_sec |-> 95,
                  run_speed_kmh |-> 10, run_duration_min |-> 20]

NoRecords == [present |-> FALSE, pushups_max |-> 0, abs_max |-> 0, plank_sec |-> 0,
              run_speed_kmh |-> 0, run_duration_min |-> 0]

NoAnalysis ==
    [present |-> FALSE, weight_change_pct |-> 0, weight_trend |-> "maintenance",
     adherence_score |-> 0, protein_compliance |-> 0, avg_rpe |-> 0,
     kcal_adjustment_needed |-> FALSE, volume_adjustment_needed |-> FALSE,
     suggestions |-> <<>>]

NoAdjustments ==
    [present |-> FALSE, has_kcal |-> FALSE, new_kcal_target |-> 0, has_volume |-> FALSE,
     volume_multiplier |-> 0, applied_rules |-> <<>>]

WithPresent(r) == [f \in DOMAIN r \cup {"present"} |-> IF f = "present" THEN TRUE ELSE r[f]]

Trends == {"fast_loss", "normal_loss", "slow_loss", "maintenance", "gain"}

\* analyses a caller may hand to applyAutomaticAdjustments directly
AnyAnalyses ==
    {[present |-> TRUE, weight_change_pct |-> 0, weight_trend |-> t,
      adherence_score |-> 80, protein_compliance |-> 0, avg_rpe |-> r,
      kcal_adjustment_needed |-> k, volume_adjustment_needed |-> v,
      suggestions |-> <<>>] :
        t \in Trends, r \in {0, 75, 85}, k \in BOOLEAN, v \in BOOLEAN}

TdeeInputs == {1100, 1514, 1940, 2000, 2600}

DiffWeights == {640, 650, 700, 730, 760}

WorkoutPreferences ==
    {[preferred_duration |-> 0, preferred_type |-> "none", avoid_high_impact |-> FALSE],
     [preferred_duration |-> 25, preferred_type |-> "strength", avoid_high_impact |-> TRUE],
     [preferred_duration |-> 35, preferred_type |-> "cardio", avoid_high_impact |-> FALSE]}

DaysSinceCreation == {0, 3, 10}

PriceGrams == {125, 499, 500, 1200, 2000}

PriceFoods == SeqToSet(FoodItems) \ {f \in SeqToSet(FoodItems) : f.cost_per_kg = 0}

StoreKeys == {"supermarket", "market", "baes"}

RECURSIVE Repeat(_, _)
Repeat(x, n) == IF n = 0 THEN <<>> ELSE <<x>> \o Repeat(x, n - 1)

\* the week of plan days, the workout log and the record snapshots of one analysis
AnalysisContexts ==
    LET day(i) == CHOOSE d \in DayPool : d.meals[1].recipe_id = (<<"r3", "r1">>)[i]
                                         /\ (d.adherence = 0)
        highRPE == CHOOSE w \in WorkoutLogs : Len(w) = 4
        midRPE == CHOOSE w \in WorkoutLogs : Len(w) = 2
        twoHard == CHOOSE w \in WorkoutLogs : Len(w) = 3
    IN  {[mealPlans |-> Repeat(day(1), 3), workouts |-> twoHard,
          currentRecords |-> BetterRecords, previousRecords |-> BaseRecords],
         [mealPlans |-> <<>>, workouts |-> <<>>, currentRecords |-> BaseRecords,
          previousRecords |-> NoRecords],
         [mealPlans |-> Repeat(day(1), 4), workouts |-> highRPE,
          currentRecords |-> BetterRecords, previousRecords |-> BaseRecords],
         [mealPlans |-> Repeat(day(2), 1), workouts |-> midRPE,
          currentRecords |-> BaseRecords, previousRecords |-> BaseRecords],
         [mealPlans |-> Repeat(day(2), 4), workouts |-> <<>>,
          currentRecords |-> BetterRecords, previousRecords |-> BaseRecords],
         [mealPlans |-> Repeat(day(1), 1), workouts |-> highRPE,
          currentRecords |-> BaseRecords, previousRecords |-> BetterRecords]}

\* the analysis reads from the user only sex, weight and goal weight
AnalysisUsers == {u \in Users : u.budget_level = "medium" /\ ~u.no_oil}

\* the users that sign in to the store
StoreUsers == {u \in Users : u.no_oil /\ u.likes # {}} \cup AnalysisUsers

----------------------------------------------------------------------------
(* State machine *)

\* calorie targets, goal weights (tenths of kg) and preferences for calculateMacros
MacroTargets == {600, 1200, 1201, 1202, 1203, 1500, 2000, 2544}

MacroGoals == {440, 500, 650, 675, 800, 1200}

ProteinPreferences == {"low", "medium", "high"}

\* weights (tenths of kg), heights (cm) and ages for calculateBMR_Mifflin
BmrWeights == {500, 700, 701, 705, 1200}

BmrHeights == {150, 165, 175, 178}

BmrAges == {18, 28, 60}

\* slot calorie targets for adjustPortionsForCalories
PortionTargets == {60, 100, 175, 263, 300, 525, 700, 1100, 1400}

\* plan days for calculateMealPlanAdherence: <<t, c>> is a day of t meals, the
\* first c of them completed
MaxAdherenceDays == 3

AdherenceDayShapes == {<<0, 0>>, <<2, 1>>, <<3, 1>>, <<3, 2>>, <<4, 0>>, <<5, 2>>, <<5, 5>>}

AdherenceDay(shape) == [meals |-> [i \in 1..shape[1] |-> [completed |-> i <= shape[2]]]]

AdherenceWeeks == SeqsUpTo({AdherenceDay(s) : s \in AdherenceDayShapes}, MaxAdherenceDays)

\* biometrics handed to calculateAllMetrics, plausible and not
BiometricSexes == {"male", "female"}

BiometricAges == {0 - 5, 0, 28, 60}

BiometricHeights == {0, 150, 175}

BiometricWeights == {0 - 100, 0, 700, 1000}

BiometricGoals == {650, 1000}

BiometricUsers ==
    {[sex |-> sx, age |-> a, height_cm |-> h, weight10 |-> w, goal10 |-> g] :
        sx \in BiometricSexes, a \in BiometricAges, h \in BiometricHeights,
        w \in BiometricWeights, g \in BiometricGoals}

----------------------------------------------------------------------------
(* The objects a caller hands to the core, and what the calls write to them *)

\* calculateWeeklyWeightChange sorting the caller's array itself
MeasurementsAfterSort_InPlace(measurements) ==
    IF Len(measurements) < 2 THEN measurements ELSE SortByDay(measurements)

\* the caller's array after calculateWeeklyWeightChange: [...measurements].sort(...)
\* orders a copy, the array handed in keeps its order
MeasurementsAfterSort(measurements) == measurements

\* the catalog after progressWorkout: the block, its details and every
\* exercise are spread into new objects before a field is assigned, and the
\* ReferenceError of line 1152 ends the call in the first (warmup) block
TemplatesAfterProgressWorkout(catalog, selectedTemplate) == catalog

\* the recipes and plan days after consolidateIngredients: total_grams and
\* used_in_recipes are fields of entries created by the function itself
InputsAfterConsolidate(inputs) == inputs

WorkoutCatalog == [templates |-> WORKOUT_TEMPLATES, details |-> BLOCK_DETAILS]

NoObjects == [user |-> NullUser, recipes |-> <<>>, mealPlans |-> <<>>,
              measurements |-> <<>>, catalog |-> WorkoutCatalog]

NoHeap == [before |-> NoObjects, now |-> NoObjects, called |-> {}]

\* plan days handed to validateMealPlan: number of meals and day totals
ValidationMeals == {1, 2, 3}

ValidationKcal == {1500, 1800, 2185, 2600, 2900}

ValidationProtein == {90, 100, 124, 160}

ValidationDay(n, kcal, protein) ==
    [isNull |-> FALSE,
     meals |-> [i \in 1..n |-> [type |-> "almuerzo", recipe_id |-> "r3", portions |-> 4,
                                completed |-> FALSE]],
     totals |-> [kcal |-> kcal, protein |-> protein], adherence |-> 0]

\* candidate lists, slot targets and rule sets for selectRecipeForCalories
MaxCandidates == 3

CandidateLists == {c \in Catalogs : Len(c) \in 1..MaxCandidates}

SelectionTargets == {300, 400, 525, 1000}

RuleSets == {generatePersonalizationRules(u) : u \in Users}

NoCall == [op |-> "none"]

Init ==
    /\ currentUser = NullUser
    /\ currentMetrics = NullMetrics
    /\ isLoading = FALSE
    /\ storeError = FALSE
    /\ pending = <<>>
    /\ analysis = NoAnalysis
    /\ adjustments = NoAdjustments
    /\ cycle = "idle"
    /\ ret = NoCall
    /\ heap = NoHeap

storeVars == <<currentUser, currentMetrics, isLoading, storeError, pending>>

cycleVars == <<analysis, adjustments, cycle>>

(* Calls of the core with inputs supplied by the caller *)

CalculateKcalRange ==
    /\ ret.op = "none"
    /\ \E tdee \in TdeeInputs, goal \in DiffWeights, cur \in DiffWeights, sx \in Sexes :
         ret' = [op |-> "calculateKcalRange",
                 args |-> [tdee |-> tdee, goal10 |-> goal, cur10 |-> cur, sex |-> sx],
                 val |-> calculateKcalRange(tdee, goal, cur, sx)]
    /\ UNCHANGED <<storeVars, cycleVars, heap>>

\* the call record of generateDailyMealPlan; slots lists, per template slot, the
\* slot's calorie target and the ids of its filtered candidates
MealPlanCall(user, recipes) ==
    LET rules == generatePersonalizationRules(user)
        name == selectDayTemplate(user, rules)
        template == DAY_TEMPLATES[name]
        targetKcal == PlanTargetKcal(user, DefaultActivity)
    IN  [op |-> "generateDailyMealPlan",
         args |-> [user |-> user, recipes |-> recipes],
         template |-> name,
         slots |-> [i \in 1..Len(template) |->
                      LET cands == filterRecipesByRules(recipes, rules,
                                       CategoryForFilter(template[i].slot))
                      IN  [slot |-> template[i].slot,
                           target |-> MealTargetKcal(targetKcal, template[i].pct),
                           candidates |-> [k \in 1..Len(cands) |-> cands[k].id]]],
         val |-> generateDailyMealPlan(user, recipes, DefaultActivity)]

GenerateDailyMealPlan ==
    /\ ret.op = "none"
    /\ \E user \in Users, recipes \in Catalogs : ret' = MealPlanCall(user, recipes)
    /\ UNCHANGED <<storeVars, cycleVars, heap>>

GenerateWorkoutPlan ==
    /\ ret.op = "none"
    /\ \E user \in Users, records \in {BaseRecords, BetterRecords},
          days \in DaysSinceCreation, prefs \in WorkoutPreferences :
         ret' = [op |-> "generateWorkoutPlan",
                 args |-> [user |-> user, personalRecords |-> records,
                           daysDiff |-> days, preferences |-> prefs],
                 val |-> generateWorkoutPlan(user, records, days, prefs)]
    /\ UNCHANGED <<storeVars, cycleVars, heap>>

GenerateWeeklyShoppingList ==
    /\ ret.op = "none"
    /\ \E user \in Users, mealPlans \in PlanWeeks, optMonth \in Months :
         \E itemMonth \in {optMonth, NextMonth(optMonth)} :
           ret' = [op |-> "generateWeeklyShoppingList",
                   args |-> [user |-> user, mealPlans |-> mealPlans,
                             optMonth |-> optMonth, itemMonth |-> itemMonth],
                   val |-> generateWeeklyShoppingList(user, mealPlans, RecipePool,
                                                      FoodItems, optMonth, itemMonth)]
    /\ UNCHANGED <<storeVars, cycleVars, heap>>

\* two calls with the same arguments, made in different calendar months: each
\* call reads new Date().getMonth() + 1 when it runs
GenerateWeeklyShoppingListTwice ==
    /\ ret.op = "none"
    /\ \E user \in Users, mealPlans \in PlanWeeks, month \in Months, later \in Months :
         /\ month < later
         /\ ret' = [op |-> "generateWeeklyShoppingList twice",
                    args |-> [user |-> user, mealPlans |-> mealPlans],
                    months |-> <<month, later>>,
                    val |-> generateWeeklyShoppingList(user, mealPlans, RecipePool,
                                                       FoodItems, month, month),
                    other |-> generateWeeklyShoppingList(user, mealPlans, RecipePool,
                                                         FoodItems, later, later)]
    /\ UNCHANGED <<storeVars, cycleVars, heap>>

\* the same user, records and preferences on an earlier and on a later day
GenerateWorkoutPlanTwice ==
    /\ ret.op = "none"
    /\ \E user \in Users, records \in {BaseRecords, BetterRecords},
          days \in DaysSinceCreation, later \in DaysSinceCreation, prefs \in WorkoutPreferences :
         /\ SessionNumber(days) < SessionNumber(later)
         /\ ret' = [op |-> "generateWorkoutPlan twice",
                    args |-> [user |-> user, personalRecords |-> records,
                              daysDiff |-> <<days, later>>, preferences |-> prefs],
                    val |-> generateWorkoutPlan(user, records, days, prefs),
                    other |-> generateWorkoutPlan(user, records, later, prefs)]
    /\ UNCHANGED <<storeVars, cycleVars, heap>>

\* the template selection of generateWorkoutPlan (lines 1235-1244): the
\* catalog filtered by the user's equipment, then selectBestWorkout on a
\* non-empty result
SelectBestWorkout ==
    /\ ret.op = "none"
    /\ \E user \in Users, records \in {BaseRecords, BetterRecords}, prefs \in WorkoutPreferences :
         LET fitnessLevel == evaluateFitnessLevel(records, user)
             availableTemplates == filterWorkoutsByEquipment(WORKOUT_TEMPLATES, user.equipment)
         IN  /\ Len(availableTemplates) > 0
             /\ ret' = [op |-> "selectBestWorkout",
                        args |-> [equipment |-> user.equipment, fitnessLevel |-> fitnessLevel,
                                  preferences |-> prefs],
                        val |-> selectBestWorkout(availableTemplates, fitnessLevel, prefs)]
    /\ UNCHANGED <<storeVars, cycleVars, heap>>

CalculateDiscountedPrice ==
    /\ ret.op = "none"
    /\ \E food \in PriceFoods, grams \in PriceGrams, store \in StoreKeys,
          budget \in {"low", "medium"}, month \in Months :
         LET user == [budget_level |-> budget]
         IN  ret' = [op |-> "calculateDiscountedPrice",
                     args |-> [basePrice |-> food.cost_per_kg, foodItem |-> food,
                               grams |-> grams, store |-> store, budget_level |-> budget,
                               currentMonth |-> month],
                     val |-> calculateDiscountedPrice(food.cost_per_kg, food, 4 * grams,
                                                      STORE_CONFIGS[store], user, month)]
    /\ UNCHANGED <<storeVars, cycleVars, heap>>

CalculateMacros ==
    /\ ret.op = "none"
    /\ \E kcal_target \in MacroTargets, goal10 \in MacroGoals, pref \in ProteinPreferences :
         ret' = [op |-> "calculateMacros",
                 args |-> [kcal_target |-> kcal_target, goal10 |-> goal10,
                           preference_protein |-> pref],
                 val |-> calculateMacros(kcal_target, goal10, pref)]
    /\ UNCHANGED <<storeVars, cycleVars, heap>>

CalculateBMR_Mifflin ==
    /\ ret.op = "none"
    /\ \E sex \in Sexes, w10 \in BmrWeights, height_cm \in BmrHeights, age \in BmrAges :
         ret' = [op |-> "calculateBMR_Mifflin",
                 args |-> [sex |-> sex, w10 |-> w10, height_cm |-> height_cm, age |-> age],
                 val |-> calculateBMR_Mifflin(sex, w10, height_cm, age)]
    /\ UNCHANGED <<storeVars, cycleVars, heap>>

\* two calls in a row with the same recipe and target; the function only reads
\* recipe.per_portion.kcal, so the second call sees the recipe of the first
AdjustPortionsForCalories ==
    /\ ret.op = "none"
    /\ \E i \in 1..Len(RecipePool), targetKcal \in PortionTargets :
         ret' = [op |-> "adjustPortionsForCalories",
                 args |-> [recipe |-> RecipePool[i], targetKcal |-> targetKcal],
                 val |-> adjustPortionsForCalories(RecipePool[i], targetKcal),
                 again |-> adjustPortionsForCalories(RecipePool[i], targetKcal)]
    /\ UNCHANGED <<storeVars, cycleVars, heap>>

CalculateMealPlanAdherence ==
    /\ ret.op = "none"
    /\ \E mealPlans \in AdherenceWeeks :
         ret' = [op |-> "calculateMealPlanAdherence",
                 args |-> [mealPlans |-> mealPlans],
                 val |-> calculateMealPlanAdherence(mealPlans)]
    /\ UNCHANGED <<storeVars, cycleVars, heap>>

\* calculateAllMetrics has no throw and no early return: every call returns Metrics
CalculateAllMetrics ==
    /\ ret.op = "none"
    /\ \E user \in BiometricUsers :
         ret' = [op |-> "calculateAllMetrics",
                 args |-> [user |-> user, activity_factor |-> DefaultActivity],
                 outcome |-> "returned",
                 val |-> calculateAllMetrics(user, DefaultActivity)]
    /\ UNCHANGED <<storeVars, cycleVars, heap>>

ValidateMealPlan ==
    /\ ret.op = "none"
    /\ \E user \in AnalysisUsers, n \in ValidationMeals, kcal \in ValidationKcal,
          protein \in ValidationProtein :
         ret' = [op |-> "validateMealPlan",
                 args |-> [plan |-> ValidationDay(n, kcal, protein), user |-> user],
                 targets |-> [kcal |-> calculateAllMetrics(user, DefaultActivity).kcal_range.target,
                              protein_g |-> calculateAllMetrics(user, DefaultActivity).macros.protein_g],
                 val |-> [valid |-> validateMealPlan(ValidationDay(n, kcal, protein), user,
                                                      DefaultActivity)]]
    /\ UNCHANGED <<storeVars, cycleVars, heap>>

SelectRecipeForCalories ==
    /\ ret.op = "none"
    /\ \E availableRecipes \in CandidateLists, targetKcal \in SelectionTargets,
          rules \in RuleSets :
         ret' = [op |-> "selectRecipeForCalories",
                 args |-> [availableRecipes |-> availableRecipes, targetKcal |-> targetKcal,
                           rules |-> rules],
                 val |-> availableRecipes[selectRecipeForCalories(availableRecipes,
                                                                  targetKcal, rules)]]
    /\ UNCHANGED <<storeVars, cycleVars, heap>>

ConsolidateIngredients ==
    /\ ret.op = "none"
    /\ \E mealPlans \in PlanWeeks :
         ret' = [op |-> "consolidateIngredients",
                 args |-> [mealPlans |-> mealPlans, recipes |-> RecipePool],
                 val |-> consolidateIngredients(mealPlans, RecipePool)]
    /\ UNCHANGED <<storeVars, cycleVars, heap>>

AnalysisCall(user, measurements, ctx) ==
    [op |-> "analyzeWeeklyProgress",
     args |-> [user |-> user, measurements |-> measurements, context |-> ctx],
     val |-> analyzeWeeklyProgress(user, measurements, ctx.mealPlans, ctx.workouts,
                                   ctx.currentRecords, ctx.previousRecords,
                                   DefaultActivity)]

AnalyzeWeeklyProgress ==
    /\ ret.op = "none"
    /\ \E user \in AnalysisUsers, measurements \in WeighIns, ctx \in AnalysisContexts :
         ret' = AnalysisCall(user, measurements, ctx)
    /\ UNCHANGED <<storeVars, cycleVars, heap>>

AdjustmentCall(user, an) ==
    [op |-> "applyAutomaticAdjustments",
     args |-> [user |-> user, analysis |-> an],
     val |-> applyAutomaticAdjustments(user, an, DefaultActivity)]

ApplyAutomaticAdjustments ==
    /\ ret.op = "none"
    /\ \E user \in Users, an \in AnyAnalyses : ret' = AdjustmentCall(user, an)
    /\ UNCHANGED <<storeVars, cycleVars, heap>>

(* The user store and a caller running the weekly planning cycle on it *)

\* setUser(user)
SetUser ==
    /\ cycle = "idle"
    /\ pending = <<>>
    /\ \E user \in StoreUsers :
         /\ currentUser' = user
         /\ currentMetrics' = StoreMetrics(user)
    /\ storeError' = FALSE
    /\ ret' = [op |-> "setUser"]
    /\ UNCHANGED <<isLoading, pending, cycleVars, heap>>

\* a weekly cycle starts with analyzeWeeklyProgress on the stored user
CycleAnalyze ==
    /\ cycle = "idle"
    /\ currentUser.present
    /\ pending = <<>>
    /\ \E measurements \in WeighIns, ctx \in AnalysisContexts :
         /\ ret' = AnalysisCall(currentUser, measurements, ctx)
         /\ analysis' = WithPresent(ret'.val)
    /\ cycle' = "analyzed"
    /\ UNCHANGED <<storeVars, adjustments, heap>>

CycleApply ==
    /\ cycle = "analyzed"
    /\ ret' = AdjustmentCall(currentUser, analysis)
    /\ adjustments' = WithPresent(ret'.val)
    /\ analysis' = NoAnalysis
    /\ cycle' = "adjusted"
    /\ UNCHANGED <<storeVars, heap>>

\* updateUser(updates) up to the await of dataStorage.saveUser
UpdateUserBegin(updates) ==
    /\ currentUser.present
    /\ Len(pending) < MaxPending
    /\ isLoading' = TRUE
    /\ storeError' = FALSE
    /\ pending' = Append(pending, [updatedUser |-> MergeUser(currentUser, updates),
                                   updates |-> updates])
    /\ UNCHANGED <<currentUser, currentMetrics, heap>>

\* useUserActions.updateKcalTarget(adjustments.new_kcal_target)
UpdateKcalTarget ==
    /\ cycle = "adjusted"
    /\ adjustments.has_kcal
    /\ UpdateUserBegin([kcal_target |-> adjustments.new_kcal_target])
    /\ cycle' = "writing"
    /\ ret' = [op |-> "updateKcalTarget"]
    /\ UNCHANGED <<analysis, adjustments, heap>>

\* useUserActions.updateWeight(newWeight) called from the profile screen
UpdateWeight ==
    /\ \E newWeight \in LoggedWeights : UpdateUserBegin([weight10 |-> newWeight])
    /\ ret' = [op |-> "updateWeight"]
    /\ UNCHANGED <<cycleVars, heap>>

\* useUserActions.updateKcalTarget(kcalTarget) called from the profile screen
StoreUpdateKcalTarget ==
    /\ \E kcalTarget \in EnteredTargets : UpdateUserBegin([kcal_target |-> kcalTarget])
    /\ ret' = [op |-> "updateKcalTarget"]
    /\ UNCHANGED <<cycleVars, heap>>

\* the i-th awaiting updateUser call resumes with success = true
SaveUserSucceedsFor(i) ==
    /\ currentUser' = pending[i].updatedUser
    /\ currentMetrics' = StoreMetrics(pending[i].updatedUser)
    /\ pending' = SubSeq(pending, 1, i - 1) \o SubSeq(pending, i + 1, Len(pending))

\* updateUser after the await: saveUser resolved with success
SaveUserSucceeds ==
    /\ \E i \in 1..Len(pending) : SaveUserSucceedsFor(i)
    /\ isLoading' = FALSE
    /\ cycle' = IF cycle = "writing" THEN "written" ELSE cycle
    /\ ret' = [op |-> "updateUser"]
    /\ UNCHANGED <<storeError, analysis, adjustments, heap>>

\* updateUser after the await: saveUser resolved with false and the catch block ran
SaveUserFails ==
    /\ \E i \in 1..Len(pending) :
         pending' = SubSeq(pending, 1, i - 1) \o SubSeq(pending, i + 1, Len(pending))
    /\ storeError' = TRUE
    /\ isLoading' = FALSE
    /\ cycle' = IF cycle = "writing" THEN "failed" ELSE cycle
    /\ ret' = [op |-> "updateUser"]
    /\ UNCHANGED <<currentUser, currentMetrics, analysis, adjustments, heap>>

\* the next plan of the cycle, generated for the stored user
CyclePlan ==
    /\ cycle = "written"
    /\ \E recipes \in Catalogs : ret' = MealPlanCall(currentUser, recipes)
    /\ cycle' = "planned"
    /\ adjustments' = NoAdjustments
    /\ UNCHANGED <<storeVars, analysis, heap>>

\* the caller ends the cycle, with or without a written target, and drops
\* what the cycle returned
CycleFinish ==
    /\ cycle \in {"analyzed", "adjusted", "planned", "failed"}
    /\ cycle' = "idle"
    /\ analysis' = NoAnalysis
    /\ adjustments' = NoAdjustments
    /\ ret' = NoCall
    /\ UNCHANGED <<storeVars, heap>>

\* the caller drops the returned value before its next call
Return ==
    /\ ret.op # "none"
    /\ cycle = "idle"
    /\ ret' = NoCall
    /\ UNCHANGED <<storeVars, cycleVars, heap>>

(* A caller holding one set of input objects through a sequence of calls *)

FrameUsers == {u \in StoreUsers : u.sex = "male" /\ u.goal10 = 650 /\ u.weight10 = 700}

FrameMealPlans == {<<d, d>> : d \in DayPool}

\* two weigh-ins a week apart, held oldest first or newest first
FrameWeighIns ==
    {<<[day |-> days[1], w10 |-> a], [day |-> days[2], w10 |-> b]>> :
        days \in {<<0, 7>>, <<7, 0>>}, a \in {980, 1000}, b \in {990}}

InitFrame ==
    /\ currentUser = NullUser
    /\ currentMetrics = NullMetrics
    /\ isLoading = FALSE
    /\ storeError = FALSE
    /\ pending = <<>>
    /\ analysis = NoAnalysis
    /\ adjustments = NoAdjustments
    /\ cycle = "idle"
    /\ ret = NoCall
    /\ \E user \in FrameUsers, mealPlans \in FrameMealPlans, measurements \in FrameWeighIns :
         LET objects == [user |-> user, recipes |-> RecipePool, mealPlans |-> mealPlans,
                         measurements |-> measurements, catalog |-> WorkoutCatalog]
         IN  heap = [before |-> objects, now |-> objects, called |-> {}]

\* the heap after a call that left the objects as written
Called(op, objects) == [heap EXCEPT !.now = objects, !.called = @ \cup {op}]

FrameGenerateDailyMealPlan ==
    /\ ret' = MealPlanCall(heap.now.user, heap.now.recipes)
    /\ heap' = Called("generateDailyMealPlan", heap.now)
    /\ UNCHANGED <<storeVars, cycleVars>>

FrameGenerateWorkoutPlan ==
    /\ \E prefs \in WorkoutPreferences :
         LET user == heap.now.user
             available == filterWorkoutsByEquipment(heap.now.catalog.templates, user.equipment)
             level == evaluateFitnessLevel(BaseRecords, user)
         IN  /\ ret' = [op |-> "generateWorkoutPlan",
                        args |-> [user |-> user, personalRecords |-> BaseRecords,
                                  daysDiff |-> 0, preferences |-> prefs],
                        val |-> generateWorkoutPlan(user, BaseRecords, 0, prefs)]
             /\ heap' = Called("generateWorkoutPlan",
                    IF Len(available) = 0 THEN heap.now
                    ELSE [heap.now EXCEPT !.catalog =
                            TemplatesAfterProgressWorkout(@,
                                selectBestWorkout(available, level, prefs))])
    /\ UNCHANGED <<storeVars, cycleVars>>

FrameGenerateWeeklyShoppingList ==
    /\ \E month \in Months :
         ret' = [op |-> "generateWeeklyShoppingList",
                 args |-> [user |-> heap.now.user, mealPlans |-> heap.now.mealPlans,
                           optMonth |-> month, itemMonth |-> month],
                 val |-> generateWeeklyShoppingList(heap.now.user, heap.now.mealPlans,
                                                    heap.now.recipes, FoodItems, month, month)]
    /\ heap' = Called("generateWeeklyShoppingList", InputsAfterConsolidate(heap.now))
    /\ UNCHANGED <<storeVars, cycleVars>>

FrameAnalyzeWeeklyProgress ==
    /\ ret' = AnalysisCall(heap.now.user, heap.now.measurements,
                           [mealPlans |-> heap.now.mealPlans, workouts |-> <<>>,
                            currentRecords |-> BaseRecords, previousRecords |-> NoRecords])
    /\ heap' = Called("analyzeWeeklyProgress",
                      [heap.now EXCEPT !.measurements = MeasurementsAfterSort(@)])
    /\ UNCHANGED <<storeVars, cycleVars>>

NextFrame ==
    \/ FrameGenerateDailyMealPlan
    \/ FrameGenerateWorkoutPlan
    \/ FrameGenerateWeeklyShoppingList
    \/ FrameAnalyzeWeeklyProgress

SpecFrame == InitFrame /\ [][NextFrame]_vars

Next ==
    \/ CalculateKcalRange
    \/ GenerateDailyMealPlan
    \/ GenerateWorkoutPlan
    \/ GenerateWeeklyShoppingList
    \/ CalculateDiscountedPrice
    \/ AnalyzeWeeklyProgress
    \/ ApplyAutomaticAdjustments
    \/ Return
    \/ CalculateMacros
    \/ CalculateBMR_Mifflin
    \/ AdjustPortionsForCalories
    \/ CalculateMealPlanAdherence
    \/ CalculateAllMetrics
    \/ GenerateWeeklyShoppingListTwice
    \/ ValidateMealPlan
    \/ SelectRecipeForCalories
    \/ ConsolidateIngredients
    \/ GenerateWorkoutPlanTwice
    \/ SelectBestWorkout

Spec == Init /\ [][Next]_vars

NextCycle ==
    \/ SetUser
    \/ CycleAnalyze
    \/ CycleApply
    \/ UpdateKcalTarget
    \/ SaveUserSucceeds
    \/ SaveUserFails
    \/ CyclePlan
    \/ CycleFinish

SpecCycle == Init /\ [][NextCycle]_vars

\* the user store alone, written to from the profile screen
NextStore ==
    \/ SetUser
    \/ UpdateWeight
    \/ StoreUpdateKcalTarget
    \/ SaveUserSucceeds
    \/ SaveUserFails

SpecStore == Init /\ [][NextStore]_vars

----------------------------------------------------------------------------
(* Properties *)

IsCall(name) == ret.op = name

\* C1: calculateKcalRange never returns a target or a range minimum below the
\* safety floor of the sex (1500 kcal male, 1200 kcal female), whatever the
\* TDEE, the weights and the selected deficit or surplus
C1_FloorRespected ==
    IsCall("calculateKcalRange") =>
        LET floor == IF ret.args.sex = "male" THEN 1500 ELSE 1200
        IN  ret.val.target >= floor /\ ret.val.min >= floor

\* a call whose computed deficit target lies below the floor and was raised to it
C1_Witness ==
    /\ IsCall("calculateKcalRange")
    /\ ret.args.sex = "male"
    /\ ret.args.goal10 - ret.args.cur10 < 0 - 50
    /\ 1000 * 1500 > ret.args.tdee * 775 + 500
    /\ ret.val.target = 1500

\* the hard filters a recipe of a slot has to pass, read from the user profile
HardFiltersHold(user, recipe, slot) ==
    /\ user.no_oil => "sin_aceite" \in recipe.tags
    /\ user.no_sugar => "sin_azucar" \in recipe.tags
    /\ \A d \in user.dislikes : \A i \in 1..Len(recipe.ingredients) :
          ~StrIncludes(recipe.ingredients[i].food_id, ToLowerCase(d))
    /\ recipe.category = (IF slot = "post_entreno" THEN "colacion" ELSE slot)
    /\ user.budget_level = "low" =>
          recipe.prep_time_min + recipe.cooking_time_min <= 30

\* C2: every meal of a generated plan, and every candidate of every slot,
\* references a recipe that passes the hard filters of its slot (no-oil and
\* no-sugar tags, no disliked ingredient, the slot's category with post_entreno
\* using colacion, at most 30 minutes for a low-budget user)
C2_MealsPassHardFilters ==
    IsCall("generateDailyMealPlan") =>
        /\ \A i \in 1..Len(ret.val.meals) :
              HardFiltersHold(ret.args.user, RecipeById(ret.val.meals[i].recipe_id),
                              ret.val.meals[i].type)
        /\ \A i \in 1..Len(ret.slots) : \A k \in 1..Len(ret.slots[i].candidates) :
              HardFiltersHold(ret.args.user, RecipeById(ret.slots[i].candidates[k]),
                              ret.slots[i].slot)

\* a no-oil user got a breakfast although the catalog holds a breakfast recipe
\* without the sin_aceite tag that is closer to the slot's calorie target
C2_Witness ==
    /\ IsCall("generateDailyMealPlan")
    /\ ret.args.user.no_oil
    /\ \E i \in 1..Len(ret.val.meals) : \E k \in 1..Len(ret.slots) :
          \E j \in 1..Len(ret.args.recipes) :
            LET meal == ret.val.meals[i]
                other == ret.args.recipes[j]
            IN  /\ ret.slots[k].slot = meal.type
                /\ other.category = meal.type
                /\ "sin_aceite" \notin other.tags
                /\ Abs(other.kcal - ret.slots[k].target)
                     < Abs(RecipeById(meal.recipe_id).kcal - ret.slots[k].target)

\* the slots of the called template that have at least one filtered candidate
FilledSlots ==
    LET Has(sl) == Len(sl.candidates) > 0
        kept == SelectSeq(ret.slots, Has)
    IN  [i \in 1..Len(kept) |-> kept[i].slot]

MealTypes == [i \in 1..Len(ret.val.meals) |-> ret.val.meals[i].type]

C5_SkipEmptySlots ==
    IsCall("generateDailyMealPlan") =>
        /\ ret.val.isNull <=> (\A k \in 1..Len(ret.slots) : Len(ret.slots[k].candidates) = 0)
        /\ ~ret.val.isNull => MealTypes = FilledSlots

\* a slot without candidates was skipped and a later slot still got its meal
C5_Witness ==
    /\ IsCall("generateDailyMealPlan")
    /\ ~ret.val.isNull
    /\ \E k \in 1..Len(ret.slots) : \E m \in (k + 1)..Len(ret.slots) :
          /\ Len(ret.slots[k].candidates) = 0
          /\ \E i \in 1..Len(ret.val.meals) : ret.val.meals[i].type = ret.slots[m].slot

\* the latest weigh-in of the call and the one taken a week before it
LatestWeighIn ==
    CHOOSE m \in SeqToSet(ret.args.measurements) :
        \A o \in SeqToSet(ret.args.measurements) : o.day <= m.day

WeekBeforeWeighIn ==
    CHOOSE m \in SeqToSet(ret.args.measurements) : m.day = LatestWeighIn.day - 7

DroppedMoreThanOnePercent ==
    /\ Len(ret.args.measurements) = 2
    /\ 100 * (WeekBeforeWeighIn.w10 - LatestWeighIn.w10) > WeekBeforeWeighIn.w10

\* C3 as stated: two measurements one week apart with a weight drop of more
\* than 1% give weight_trend fast_loss and the weight_loss_too_fast suggestion
C3_FastLossClassified ==
    IsCall("analyzeWeeklyProgress") /\ DroppedMoreThanOnePercent =>
        /\ ret.val.weight_trend = "fast_loss"
        /\ "weight_loss_too_fast" \in SeqToSet(ret.val.suggestions)

\* C6 as stated: generateWorkoutPlan returns null only when no template of
\* the catalog has all its required equipment, and a plan otherwise
C6_NullOnlyWithoutEligibleTemplate ==
    IsCall("generateWorkoutPlan") =>
        (ret.val.isNull <=>
            ~ \E i \in 1..Len(WORKOUT_TEMPLATES) :
                 TemplateEligible(WORKOUT_TEMPLATES[i], ret.args.user.equipment))

CalorieRules == {"weight_loss_too_fast", "weight_loss_too_slow"}

VolumeRules == {"rpe_too_high", "performance_improved"}

RuleCount(rules, ids) == Cardinality({i \in 1..Len(rules) : rules[i] \in ids})

\* C7: applyAutomaticAdjustments applies at most one of the two calorie rules
\* and at most one volume multiplier, which is 0.9 or 1.075; a new_kcal_target
\* it returns is never below the safety floor of the sex (1500 male, 1200 female)
C7_OneRuleEachAboveFloor ==
    IsCall("applyAutomaticAdjustments") =>
        /\ RuleCount(ret.val.applied_rules, CalorieRules) = (IF ret.val.has_kcal THEN 1 ELSE 0)
        /\ RuleCount(ret.val.applied_rules, VolumeRules) = (IF ret.val.has_volume THEN 1 ELSE 0)
        /\ ret.val.has_volume => ret.val.volume_multiplier \in {900, 1075}
        /\ ret.val.has_kcal =>
              ret.val.new_kcal_target >= (IF ret.args.user.sex = "male" THEN 1500 ELSE 1200)

\* the -5% rule was applied to a target whose 95% lies below the floor, together
\* with a volume multiplier
C7_Witness ==
    /\ IsCall("applyAutomaticAdjustments")
    /\ "weight_loss_too_slow" \in SeqToSet(ret.val.applied_rules)
    /\ ret.args.user.sex = "female"
    /\ RoundDiv(calculateAllMetrics(ret.args.user, DefaultActivity).kcal_range.target * 95, 100)
         < 1200
    /\ ret.val.new_kcal_target = 1200
    /\ ret.val.has_volume

\* C8 as stated: once the adjusted target is written to the user's kcal_target,
\* the slot targets of the next plan are the template percentages of that target
C8_AdjustedTargetDistributed ==
    cycle = "planned" =>
        \A k \in 1..Len(ret.slots) :
            ret.slots[k].target
              = RoundDiv(currentUser.kcal_target * DAY_TEMPLATES[ret.template][k].pct, 100)

\* the price of an assigned ingredient at a store in the month of the optimization
PriceAt(ingredient, store) ==
    LET foodItem == FoodItems[FindFood(FoodItems, ingredient.food_id)]
    IN  calculateDiscountedPrice(foodItem.cost_per_kg, foodItem, ingredient.total_g4,
                                 STORE_CONFIGS[store], ret.args.user, ret.args.optMonth)

AssignedFinal(store) ==
    LET d == ret.val.optimization.distribution[store]
    IN  SumSeq([i \in 1..Len(d) |-> PriceAt(d[i], store).final_price])

AssignedSavings(store) ==
    LET d == ret.val.optimization.distribution[store]
    IN  SumSeq([i \in 1..Len(d) |-> PriceAt(d[i], store).original_price
                                      - PriceAt(d[i], store).final_price])

DeliveryDue(store) ==
    IF Len(ret.val.optimization.distribution[store]) > 0
    THEN STORE_CONFIGS[store].delivery_cost ELSE 0

ListStores == AvailableStores(ret.args.user)

\* C9: the total cost of a shopping list is the sum of the final prices of the
\* assigned items plus the delivery cost of each store that received an item,
\* and the total savings is the sum of original minus final price over the items
C9_TotalsAreSums ==
    IsCall("generateWeeklyShoppingList") =>
        /\ ret.val.optimization.total_cost
             = SumSeq([i \in 1..Len(ListStores) |->
                         AssignedFinal(ListStores[i]) + DeliveryDue(ListStores[i])])
        /\ ret.val.optimization.total_savings
             = SumSeq([i \in 1..Len(ListStores) |-> AssignedSavings(ListStores[i])])
        /\ ret.val.total_cost_estimate = ret.val.optimization.total_cost

\* a list with items in two stores, one charging delivery and one not, and savings
C9_Witness ==
    /\ IsCall("generateWeeklyShoppingList")
    /\ Len(ret.val.optimization.distribution["supermarket"]) > 0
    /\ Len(ret.val.optimization.distribution["market"]) > 0
    /\ ret.val.optimization.total_savings > 0
    /\ ret.val.optimization.total_cost > 2000

\* the percentage a discount takes off, 0 when its condition does not hold
BaesPct ==
    IF ret.args.budget_level = "low" THEN STORE_CONFIGS[ret.args.store].baes_discount ELSE 0

SeasonalPct ==
    IF ret.args.currentMonth \in ret.args.foodItem.seasonal_months
    THEN STORE_CONFIGS[ret.args.store].seasonal_discount ELSE 0

BulkPct ==
    IF ret.args.grams >= STORE_CONFIGS[ret.args.store].bulk_discount_threshold
    THEN STORE_CONFIGS[ret.args.store].bulk_discount_pct ELSE 0

IsChickenExample ==
    /\ ret.args.basePrice = 6000
    /\ ret.args.grams = 1200
    /\ ret.args.store = "baes"
    /\ ret.args.budget_level = "low"
    /\ ret.args.currentMonth \notin ret.args.foodItem.seasonal_months

\* C10: calculateDiscountedPrice returns the base price cost_per_kg / 1000 x
\* grams (in whole units) and a final price that is the base price times
\* (1 - pct/100) for each discount whose condition holds (BAES for a low
\* budget, seasonal in a seasonal month, bulk from the threshold on), rounded
\* once at the end; 1200 g at 6000 per kg in the BAES store for a low budget
\* out of season gives 7200, then 5400, then 4590, savings 2610
C10_MultiplicativeDiscounts ==
    IsCall("calculateDiscountedPrice") =>
        /\ ret.val.original_price = RoundDiv(ret.args.basePrice * ret.args.grams, 1000)
        /\ ret.val.final_price
             = RRound(RMul(RMul(RMul(<<ret.val.original_price, 1>>,
                                     <<100 - BaesPct, 100>>),
                                <<100 - SeasonalPct, 100>>),
                           <<100 - BulkPct, 100>>))
        /\ IsChickenExample =>
              /\ ret.val.original_price = 7200
              /\ 7200 * (100 - BaesPct) = 5400 * 100
              /\ 5400 * (100 - BulkPct) = 4590 * 100
              /\ ret.val.final_price = 4590
              /\ ret.val.original_price - ret.val.final_price = 2610

\* the call of the chicken example
C10_Witness ==
    /\ IsCall("calculateDiscountedPrice")
    /\ IsChickenExample
    /\ ret.val.final_price = 4590

MacroEnergy(macros) == macros.protein_g * 4 + macros.fat_g * 9 + macros.carbs_g * 4

\* C11: whenever calculateMacros returns carbs_g > 0, the energy of the macros
\* protein_g*4 + fat_g*9 + carbs_g*4 is within 4 kcal of the supplied target
C11_MacroEnergyNearTarget ==
    IsCall("calculateMacros") /\ ret.val.carbs_g > 0 =>
        Abs(MacroEnergy(ret.val) - ret.args.kcal_target) <= 4

\* a call with carbohydrates whose rounding moved the energy off the target
C11_Witness ==
    /\ IsCall("calculateMacros")
    /\ ret.val.carbs_g > 0
    /\ Abs(MacroEnergy(ret.val) - ret.args.kcal_target) = 2

\* the Mifflin-St Jeor closed form in hundredths of a kcal
MifflinHundredths(sex, w10, height_cm, age) ==
    100 * w10 + 625 * height_cm - 500 * age + (IF sex = "male" THEN 500 ELSE 0 - 16100)

\* C12: calculateBMR_Mifflin is the closed form 10*weight + 6.25*height -
\* 5*age + (5 male, -161 female) rounded to the nearest integer (half up);
\* female, 70 kg, 165 cm, 28 years gives 1430
C12_MifflinClosedForm ==
    IsCall("calculateBMR_Mifflin") =>
        LET exact == MifflinHundredths(ret.args.sex, ret.args.w10, ret.args.height_cm,
                                       ret.args.age)
        IN  /\ 100 * ret.val - exact <= 50
            /\ exact - 100 * ret.val < 50
            /\ (ret.args.sex = "female" /\ ret.args.w10 = 700 /\ ret.args.height_cm = 165
                  /\ ret.args.age = 28) => ret.val = 1430

\* the call of the example: female, 70 kg, 165 cm, 28 years
C12_Witness ==
    /\ IsCall("calculateBMR_Mifflin")
    /\ ret.args = [sex |-> "female", w10 |-> 700, height_cm |-> 165, age |-> 28]
    /\ ret.val = 1430

DistributionSum(name) ==
    SumSeq([i \in 1..Len(DAY_TEMPLATES[name]) |-> DAY_TEMPLATES[name][i].pct])

\* C14: for each of the day templates normal_day, fasting_morning and
\* simple_3_meals the calorie-distribution fractions sum to 1.0 within 0.01,
\* and every generated plan was distributed by one of these templates
C14_DistributionSumsToOne ==
    /\ DOMAIN DAY_TEMPLATES = {"normal_day", "fasting_morning", "simple_3_meals"}
    /\ \A name \in DOMAIN DAY_TEMPLATES : Abs(DistributionSum(name) - 100) <= 1
    /\ IsCall("generateDailyMealPlan") =>
           /\ ret.template \in DOMAIN DAY_TEMPLATES
           /\ Abs(SumSeq([i \in 1..Len(ret.slots) |->
                    DAY_TEMPLATES[ret.template][i].pct]) - 100) <= 1

\* a plan generated with the normal-day template, whose five shares sum to one
C14_Witness ==
    /\ IsCall("generateDailyMealPlan")
    /\ ret.template = "normal_day"
    /\ Len(ret.slots) = 5
    /\ DistributionSum(ret.template) = 100

\* the days of a list that have at least one meal
DaysWithMeals(mealPlans) == {i \in 1..Len(mealPlans) : Len(mealPlans[i].meals) > 0}

\* v = round(num / den) for den > 0, halves rounded up
IsRounded(v, num, den) == 2 * (v * den - num) <= den /\ 2 * (num - v * den) < den

\* the sum over the days with meals of c / t * 100, as a fraction over 60 * n:
\* every t is at most 5, so 60 / t is an integer
PercentSum60(mealPlans) ==
    SumSeq([i \in 1..Len(mealPlans) |->
              IF i \in DaysWithMeals(mealPlans)
              THEN 100 * CompletedMeals(mealPlans[i]) * (60 \div Len(mealPlans[i].meals))
              ELSE 0])

\* C15: a day with t > 0 meals, c of them completed, has adherence
\* round(c / t * 100), within 0..100 (1 of 3 gives 33); several days give the
\* rounded mean of the percentages of the days with at least one meal, and 0
\* when no day has a meal
C15_AdherenceIsRoundedMean ==
    IsCall("calculateMealPlanAdherence") =>
        LET mealPlans == ret.args.mealPlans
            n == Cardinality(DaysWithMeals(mealPlans))
        IN  /\ ret.val \in 0..100
            /\ n = 0 => ret.val = 0
            /\ n > 0 => IsRounded(ret.val, PercentSum60(mealPlans), 60 * n)
            /\ Len(mealPlans) = 1 /\ n = 1 =>
                 IsRounded(ret.val, 100 * CompletedMeals(mealPlans[1]),
                           Len(mealPlans[1].meals))
            /\ mealPlans = <<AdherenceDay(<<3, 1>>)>> => ret.val = 33

\* three days, one of them without meals, the other two with 2 of 3 and 1 of 2
\* meals completed: the mean 58.33 of the two percentages is rounded to 58
C15_Witness ==
    /\ IsCall("calculateMealPlanAdherence")
    /\ Len(ret.args.mealPlans) = 3
    /\ Cardinality(DaysWithMeals(ret.args.mealPlans)) = 2
    /\ PercentSum60(ret.args.mealPlans) = 7000
    /\ ret.val = 58

\* biometrics outside any plausible human range: the examples of the claim
ImplausibleBiometrics(user) == user.height_cm = 0 \/ user.weight10 <= 0 \/ user.age < 0

\* C16: a call with biometrics outside plausible human ranges (height 0,
\* weight <= 0, negative age) is rejected with a validation error instead of
\* returning Metrics computed from them
C16_ImplausibleBiometricsRejected ==
    IsCall("calculateAllMetrics") /\ ImplausibleBiometrics(ret.args.user) =>
        ret.outcome = "validation_error"

\* C17: two calls of generateWeeklyShoppingList with equal user, mealPlans,
\* recipes, foodItems and weekStart return the same store assignment, the
\* same item prices and the same total cost, whatever the calendar month of
\* each call is
C17_ListDependsOnDeclaredInputsOnly ==
    IsCall("generateWeeklyShoppingList twice") =>
        /\ ret.val.optimization.distribution = ret.other.optimization.distribution
        /\ ret.val.items = ret.other.items
        /\ ret.val.total_cost_estimate = ret.other.total_cost_estimate

CoreCalls == {"generateDailyMealPlan", "generateWorkoutPlan", "generateWeeklyShoppingList",
              "analyzeWeeklyProgress"}

RangeOfTier(call, pct) ==
    LET floor == IF call.args.sex = "male" THEN 1500 ELSE 1200
        unclamped == CHOOSE t \in 0..5000 : IsRounded(t, call.args.tdee * (1000 + pct), 1000)
        target == Max(unclamped, floor)
    IN  /\ call.val.target = target
        /\ \E m \in 0..5000 : IsRounded(m, 95 * target, 100) /\ call.val.min = Max(m, floor)
        /\ IsRounded(call.val.max, 105 * target, 100)

\* C19 as stated: a loss of more than 5 kg gives -22.5%, a loss of less than
\* 5 kg -15%, a gain of more than 5 kg +12.5%, a gain of less than 5 kg +7.5%,
\* every other case (a difference of exactly 5 kg included) 0%
C19_TiersAsStated ==
    IsCall("calculateKcalRange") =>
        LET diff10 == ret.args.goal10 - ret.args.cur10
            pct == IF diff10 < 0 - 50 THEN 0 - 225
                   ELSE IF diff10 < 0 /\ diff10 > 0 - 50 THEN 0 - 150
                   ELSE IF diff10 > 50 THEN 125
                   ELSE IF diff10 > 0 /\ diff10 < 50 THEN 75
                   ELSE 0
        IN  RangeOfTier(ret, pct)

\* C19: calculateKcalRange selects the percentage by the tiers of (goal
\* weight - current weight): a loss of more than 5 kg gives -22.5%, a loss of
\* at most 5 kg -15%, a gain of more than 5 kg +12.5%, a gain of at most 5 kg
\* +7.5%, equal weights 0%; the target is round(tdee * (1 + percentage))
\* before the floor clamp and the result is
\* {min = max(target * 0.95, floor), max = target * 1.05, target}
C19_TiersWithBoundary ==
    IsCall("calculateKcalRange") =>
        LET diff10 == ret.args.goal10 - ret.args.cur10
            pct == IF diff10 < 0 - 50 THEN 0 - 225
                   ELSE IF diff10 < 0 THEN 0 - 150
                   ELSE IF diff10 > 50 THEN 125
                   ELSE IF diff10 > 0 THEN 75
                   ELSE 0
        IN  RangeOfTier(ret, pct)

\* a goal exactly 5 kg below the current weight with a TDEE of 2000: the
\* target is 1700, the 15% deficit
C19_Witness ==
    /\ IsCall("calculateKcalRange")
    /\ ret.args.goal10 - ret.args.cur10 = 0 - 50
    /\ ret.args.tdee = 2000
    /\ ret.val = [min |-> 1615, max |-> 1785, target |-> 1700]

\* C20: the day validation reports a day invalid exactly when its total
\* calories deviate by more than 30% from the calorie target, or its protein
\* is below 80% of the protein target, or it has fewer than 2 meals
C20_InvalidExactlyOnThreeConditions ==
    IsCall("validateMealPlan") =>
        LET plan == ret.args.plan
            kcalOff == 100 * Abs(plan.totals.kcal - ret.targets.kcal) > 30 * ret.targets.kcal
            proteinLow == 100 * plan.totals.protein < 80 * ret.targets.protein_g
            fewMeals == Len(plan.meals) < 2
        IN  ret.val.valid <=> ~(kcalOff \/ proteinLow \/ fewMeals)

\* the candidates the selection is made from: those within 15% of the target
\* when there is one, else all
SelectionPool(availableRecipes, targetKcal) ==
    LET all == {availableRecipes[i] : i \in 1..Len(availableRecipes)}
        near == {r \in all : 100 * Abs(r.kcal - targetKcal) <= 15 * targetKcal}
    IN  IF near # {} THEN near ELSE all

\* C21: for a non-empty candidate list selectRecipeForCalories returns the
\* candidate with the highest score, ties broken by the smallest absolute
\* calorie deviation, among the candidates within 15% of the target when one
\* exists and among all candidates otherwise
C21_BestScoreThenClosest ==
    IsCall("selectRecipeForCalories") =>
        LET pool == SelectionPool(ret.args.availableRecipes, ret.args.targetKcal)
            Score(r) == scoreRecipe(r, ret.args.rules)
            Off(r) == Abs(r.kcal - ret.args.targetKcal)
        IN  /\ ret.val \in pool
            /\ \A r \in pool : Score(r) <= Score(ret.val)
            /\ \A r \in pool : Score(r) = Score(ret.val) => Off(ret.val) <= Off(r)

\* a call in which a candidate outside the 15% band has a higher score than
\* the one returned, and one in the band was returned
C21_Witness ==
    /\ IsCall("selectRecipeForCalories")
    /\ LET all == {ret.args.availableRecipes[i] : i \in 1..Len(ret.args.availableRecipes)}
       IN  /\ SelectionPool(ret.args.availableRecipes, ret.args.targetKcal) # all
           /\ \E r \in all : scoreRecipe(r, ret.args.rules) > scoreRecipe(ret.val, ret.args.rules)

\* C22: the priority of each consolidated ingredient follows from its final
\* total: high for the primary-protein ids, medium for a staple vegetable
\* with a total of at least 500 g, low otherwise, however the total is split
\* across meals
C22_PriorityFromFinalTotal ==
    IsCall("consolidateIngredients") =>
        \A i \in 1..Len(ret.val) :
            ret.val[i].priority =
                (IF ret.val[i].food_id \in highPriorityFoods THEN "high"
                 ELSE IF ret.val[i].food_id \in mediumPriorityFoods
                         /\ ret.val[i].total_g4 >= 4 * 500 THEN "medium"
                 ELSE "low")

\* the stores open to the user of the call: baes only with a low budget
OpenStores ==
    IF ret.args.user.budget_level = "low" THEN {"supermarket", "market", "baes"}
    ELSE {"supermarket", "market"}

\* the consolidated ingredients of the call that have a price per kg
PricedIngredients ==
    LET all == consolidateIngredients(ret.args.mealPlans, RecipePool)
    IN  {all[i] : i \in {k \in 1..Len(all) :
                           /\ FindFood(FoodItems, all[k].food_id) # 0
                           /\ FoodItems[FindFood(FoodItems, all[k].food_id)].cost_per_kg # 0}}

\* C23: every priced ingredient is assigned to a store open to the user
\* (supermarket, market, and baes only for a low-budget user) whose
\* discounted price for it is minimal among the open stores; a user who is
\* not low-budget has no item at the baes store
C23_CheapestOpenStore ==
    IsCall("generateWeeklyShoppingList") =>
        LET distribution == ret.val.optimization.distribution
            At(store) == {distribution[store][i] : i \in 1..Len(distribution[store])}
        IN  /\ \A store \in DOMAIN distribution : At(store) # {} => store \in OpenStores
            /\ \A ingredient \in PricedIngredients :
                 \E store \in OpenStores \cap DOMAIN distribution :
                    /\ ingredient \in At(store)
                    /\ \A other \in OpenStores :
                         PriceAt(ingredient, store).final_price
                            <= PriceAt(ingredient, other).final_price
            /\ ret.args.user.budget_level # "low" =>
                 ("baes" \notin DOMAIN distribution \/ distribution["baes"] = <<>>)

\* a list of a user without a low budget for whom an ingredient would be
\* cheaper at the baes store than at the store it was assigned to
C23_Witness ==
    /\ IsCall("generateWeeklyShoppingList")
    /\ ret.args.user.budget_level # "low"
    /\ \E ingredient \in PricedIngredients :
         \E store \in OpenStores :
            /\ \E i \in 1..Len(ret.val.optimization.distribution[store]) :
                  ret.val.optimization.distribution[store][i] = ingredient
            /\ PriceAt(ingredient, "baes").final_price < PriceAt(ingredient, store).final_price

\* the stores that received at least one item in the list of the call
StoresWithItems ==
    {store \in DOMAIN ret.val.optimization.distribution :
        ret.val.optimization.distribution[store] # <<>>}

\* C24: the store_mode of a generated list is the single store when exactly
\* one store received items; otherwise it is baes when the user is
\* low-budget, and mixed in every other case
C24_StoreMode ==
    IsCall("generateWeeklyShoppingList") =>
        ret.val.store_mode =
            (IF Cardinality(StoresWithItems) = 1 THEN CHOOSE store \in StoresWithItems : TRUE
             ELSE IF ret.args.user.budget_level = "low" THEN "baes"
             ELSE "mixed")

\* a list with items in two stores for a user without a low budget
C24_Witness ==
    /\ IsCall("generateWeeklyShoppingList")
    /\ ret.args.user.budget_level # "low"
    /\ StoresWithItems = {"supermarket", "market"}
    /\ ret.val.store_mode = "mixed"

\* the weekly change of the analysis lies in [-0.25%, 0%)
InSlowBand == 10 * ret.val.weight_change_pct >= 0 - 25 /\ ret.val.weight_change_pct < 0

\* the measurements reach two weeks back from the latest weigh-in, and the
\* change over those two weeks, to one decimal, is at least -0.5%
SustainedTwoWeeks ==
    \E m \in SeqToSet(ret.args.measurements) :
        /\ m.day = LatestWeighIn.day - 14
        /\ RoundDiv(1000 * (LatestWeighIn.w10 - m.w10), m.w10) >= 0 - 5

\* C25: the trend is slow_loss, and a weight-loss user gets the
\* weight_loss_too_slow suggestion, only when the weekly change lies in
\* [-0.25%, 0%) and the low rate has been sustained over two weeks of
\* measurements; a change in that band not sustained over two weeks is
\* classified as maintenance and produces no calorie suggestion
C25_SlowLossNeedsTwoWeeks ==
    IsCall("analyzeWeeklyProgress") =>
        LET suggested == {ret.val.suggestions[i] : i \in 1..Len(ret.val.suggestions)}
        IN  /\ ret.val.weight_trend = "slow_loss" \/ "weight_loss_too_slow" \in suggested
                 => InSlowBand /\ SustainedTwoWeeks
            /\ InSlowBand /\ ~SustainedTwoWeeks
                 => /\ ret.val.weight_trend = "maintenance"
                    /\ suggested \cap {"weight_loss_too_slow", "weight_loss_too_fast"} = {}

\* the user of the call has a template for the equipment at hand
HasEligibleTemplate ==
    Len(filterWorkoutsByEquipment(WORKOUT_TEMPLATES, ret.args.user.equipment)) > 0

\* a progressed value of the later plan exceeds that of the earlier plan:
\* reps or hold time of an exercise, run speed or interval work time
LaterIsHarder(earlier, later) ==
    \E b \in 1..Len(earlier.blocks) :
        LET e == earlier.blocks[b].details
            l == later.blocks[b].details
        IN  \/ "speed_kmh100" \in DOMAIN e /\ l.speed_kmh100 > e.speed_kmh100
            \/ "work_sec" \in DOMAIN e /\ l.work_sec > e.work_sec
            \/ /\ "exercises" \in DOMAIN e
               /\ \E i \in 1..Len(e.exercises) :
                     \/ RepsIsNumber(e.exercises[i]) /\ l.exercises[i].reps > e.exercises[i].reps
                     \/ l.exercises[i].duration_sec > e.exercises[i].duration_sec

\* C26: generateWorkoutPlan compounds the fitness-level multiplier with the
\* per-session multiplier 1 + 0.05 * (sessionNumber - 1); for the same user,
\* records and template a later session yields a plan whose push-up reps,
\* plank hold, run speed or interval work time are larger than in the
\* earlier one
C26_LaterSessionProgresses ==
    IsCall("generateWorkoutPlan twice") /\ HasEligibleTemplate =>
        /\ ~ret.val.isNull
        /\ ~ret.other.isNull
        /\ ret.other.sessionNumber > ret.val.sessionNumber
        /\ LaterIsHarder(ret.val, ret.other)

\* a required capability is present in the equipment; dumbbells count only
\* with a positive weight
Owns(equipment, capability) ==
    \/ capability = "treadmill" /\ equipment.treadmill
    \/ capability = "dumbbells_kg" /\ equipment.dumbbells_kg > 0
    \/ capability = "rope" /\ equipment.rope
    \/ capability = "mat" /\ equipment.mat
    \/ capability = "resistance_bands" /\ equipment.resistance_bands

\* C27: the template chosen for a user has every required capability in the
\* user's equipment, and lists the user's fitness level whenever at least
\* one eligible template lists it
C27_ChosenTemplateEligible ==
    IsCall("selectBestWorkout") =>
        LET eligible == {t \in SeqToSet(WORKOUT_TEMPLATES) :
                            \A c \in t.required_equipment : Owns(ret.args.equipment, c)}
        IN  /\ ret.val \in eligible
            /\ (\E t \in eligible : ret.args.fitnessLevel \in t.fitness_level)
                 => ret.args.fitnessLevel \in ret.val.fitness_level

\* a user with a treadmill and no dumbbells who prefers 25 minutes: the
\* dumbbell template has the closest duration and is not chosen
C27_Witness ==
    /\ IsCall("selectBestWorkout")
    /\ ret.args.equipment.treadmill
    /\ ret.args.equipment.dumbbells_kg = 0
    /\ ret.args.preferences.preferred_duration = 25
    /\ ret.val.id # "strength_dumbbells"

\* days of the analysed week on which the protein target was missed: a day
\* counts as reached with >= 70% meal adherence and >= 90% of the target
ProteinMissedDays(call) ==
    Len(call.args.context.mealPlans)
      - calculateProteinCompliance(call.args.context.mealPlans, call.args.user,
                                   DefaultActivity)

\* C28: when the protein target is missed on 3 or more days of the analysed
\* week, analyzeWeeklyProgress emits the protein_insufficient alert
C28_ProteinAlertFromThreeDays ==
    IsCall("analyzeWeeklyProgress") =>
        (ProteinMissedDays(ret) >= 3
            => "protein_insufficient" \in SeqToSet(ret.val.suggestions))

\* C29: in the weekly cycle every rule id that applyAutomaticAdjustments lists
\* in applied_rules is the rule_id of a suggestion of the analysis that
\* analyzeWeeklyProgress produced and that was handed to it
C29_AppliedRulesFired ==
    (IsCall("applyAutomaticAdjustments") /\ cycle = "adjusted") =>
        SeqToSet(ret.val.applied_rules) \subseteq SeqToSet(ret.args.analysis.suggestions)

\* C30: when updateUser calls overlap, the completion of one call keeps every
\* field it did not update as the store holds it, so that the final
\* currentUser contains the updates of both calls; currentMetrics is computed
\* from the final user and isLoading is false once no call is awaiting
C30_OverlappingUpdatesKept ==
    [][\A i \in 1..Len(pending) :
          SaveUserSucceedsFor(i) =>
              /\ \A f \in DOMAIN currentUser \ DOMAIN pending[i].updates :
                     currentUser'[f] = currentUser[f]
              /\ currentMetrics' = StoreMetrics(currentUser')
              /\ (pending' = <<>> => ~isLoading')]_vars

====
